---- MODULE Spec2Model ----
(***************************************************************************)
(* The coin-ledger transaction engine of src/services/transactionService.js *)
(* as a state machine.  The committed store holds the users' coinBalance    *)
(* and the Transaction collection.  Every engine call runs its callback     *)
(* inside session.withTransaction: its reads see the committed store, its   *)
(* writes stay in the session until the commit, a write to a document that  *)
(* another open session has written, or that was committed since the        *)
(* session's snapshot, is a write conflict (a transient error) on which     *)
(* withTransaction aborts and runs the callback again, and a thrown error   *)
(* aborts the session and is rethrown to the caller.  The controllers that  *)
(* call the engine (dedication requests, live shows, becomeStar), the        *)
(* appointment controller and the identifier generators follow it.          *)
(***************************************************************************)
EXTENDS Integers, Sequences, FiniteSets, TLC

\* The users that exist in the User collection: two fans, a star and the admin.
Users == {"fan", "fan2", "star", "admin"}

\* The ids a caller may pass: the existing users and one id of no user.
UserIds == Users \cup {"ghost"}

\* An absent receiverId (undefined), which the schema's `required` rejects.
NullId == "null"

\* The <<payerId, receiverId>> pairs callers pass: each user pays the other, an
\* id of no user pays, and a payment names no receiver.
Parties ==
  {<<"fan", "star">>, <<"star", "fan">>, <<"ghost", "star">>, <<"fan", NullId>>}

\* The requests that may be in progress at the same time.
Clients == {"c1", "c2"}

\* The coins a user starts with (initializeUserCoins sets 1000; scaled down).
InitialCoins == 1

\* The largest amount a caller passes; 0 is the invalid amount.
MaxAmount == 2

\* The most Transaction records created in one run.
MaxTransactions == 2

\* The most bookings (dedication requests and attendances) made in one run.
MaxBookings == 2

\* The highest price of a booking; 0 is the price createTransaction refuses.
MaxPrice == 1

\* The most live shows in one run.
MaxShows == 2

\* The most attendances of live shows in one run.
MaxAttendances == 3

\* The most appointments made in one run, and the time slots of the star's
\* availability.
MaxAppointments == 2
MaxSlots == 2

\* The most payments made to become a star in one run.
MaxStars == 2

\* The largest finite maxCapacity of a live show.
MaxCapacity == 1

\* The base and the number of digits of a baroniId: the ids 100 to 111 in
\* base 2 stand for the ids 100000 to 999999 of the source.
Radix == 2
IdDigits == 3

VARIABLES
  coinBalance,   \* the committed coinBalance of every user
  transactions,  \* the committed Transaction collection, a record's id its index
  pc,            \* where each client's request stands
  req,           \* each client's request in progress
  sess,          \* each client's session: its snapshot's age and its writes
  ret,           \* the result returned by the step just taken
  succeeded,     \* per transaction id, the calls that returned success on it
  dedications,   \* the DedicationRequest collection, a record's id its index
  attendances,   \* the LiveShowAttendance collection, a record's id its index
  liveShows,     \* the LiveShow collection, a record's id its index
  handler,       \* where each controller's request handler stands
  appointments,  \* the Appointment collection, a record's id its index
  timeSlots,     \* the status of each time slot of the star's Availability
  role,          \* the role of every user
  baroniId,      \* the baroniId of every user, 0 if the user has none
  seeded         \* the baroniIds of the User documents of earlier runs

\* The Appointment and Availability documents.
appointmentVars == <<appointments, timeSlots>>

\* The fields of the User documents other than the wallet.
accountVars == <<role, baroniId, seeded>>

\* The state of the controllers, which the engine never touches.
bookingVars ==
  <<dedications, attendances, liveShows, handler, appointmentVars, accountVars>>

vars ==
  <<coinBalance, transactions, pc, req, sess, ret, succeeded,
    dedications, attendances, liveShows, handler, appointments, timeSlots,
    role, baroniId, seeded>>

PaymentModes == {"coin", "external"}

Statuses == {"pending", "completed", "cancelled", "refunded"}

\* The messages of the errors the engine throws, and the success result.
Success == "success"
ErrAmount == "Amount must be greater than 0"
ErrPayerNotFound == "Payer not found"
ErrInsufficient == "Insufficient coin balance"
ErrNotFound == "Transaction not found"
ErrNotPending == "Transaction is not in pending status"
ErrNotCompleted == "Transaction is not in completed status"
ErrValidation == "Transaction validation failed"

NoRequest ==
  [op |-> "none", payerId |-> NullId, receiverId |-> NullId, amount |-> 0,
   paymentMode |-> "none", transactionId |-> 0]

\* A session with no snapshot and no writes.
EmptySession ==
  [open |-> FALSE, inc |-> [u \in Users |-> 0], users |-> {}, txns |-> {},
   staleUsers |-> {}, staleTxns |-> {}, insert |-> <<>>, status |-> "none"]

\* The session once its first operation has taken the snapshot.
OpenSession == [EmptySession EXCEPT !.open = TRUE]

\* ret is what the step just taken returned to a caller, if a call returned in
\* it: the client, its request and the result (Success or the error's message).
NoReturn == [client |-> "none", req |-> NoRequest, result |-> "none"]

Returned(c, r, msg) == [client |-> c, req |-> r, result |-> msg]

\* No call has succeeded on a transaction id yet.
NoSuccess == [t \in 1..MaxTransactions |-> [complete |-> 0, cancel |-> 0, refund |-> 0]]

\* A request handler of a controller: the controller function it runs, the
\* statement it stands at, the booking and the transaction it has read, the
\* price and payment mode of its request body, the result of its last engine
\* call and, for a fan-out, the attendances still to visit; req.user; the
\* status and the time slot of the appointment it has read and the time slot
\* of its request body; the attendance fee and the thumbnail of a new show;
\* the plan of becomeStar and the baroniId being generated.
IdleHandler ==
  [op |-> "none", at |-> "idle", id |-> 0, txn |-> 0, price |-> 0,
   paymentMode |-> "none", result |-> "none", todo |-> <<>>,
   user |-> "none", status |-> "none", slot |-> 0, newSlot |-> 0,
   fee |-> 0, thumbnail |-> FALSE, plan |-> "none", baroniId |-> 0,
   maxCapacity |-> 0]

\* The maxCapacity stored for 'unlimited' (line 141), and the capacities a show
\* is created with.
Unlimited == -1

Capacities == {Unlimited} \cup 1..MaxCapacity

\* The payment of the hosting of a live show, made in external mode.
HostingPayment ==
  [type |-> "live_show_hosting_payment", payerId |-> "star", receiverId |-> "admin",
   amount |-> MaxPrice, paymentMode |-> "external", status |-> "pending"]

\* The live show the star hosts: active, nobody has joined, its fee the highest
\* price, its hosting paid by the first transaction.
ActiveShow ==
  [starId |-> "star", status |-> "active", attendees |-> {}, currentAttendees |-> 0,
   attendanceFee |-> MaxPrice, hostingPrice |-> MaxPrice, transactionId |-> 1,
   maxCapacity |-> Unlimited]

\* The roles of the users (models/User.js, role).
Roles == [u \in Users |-> IF u \in {"star", "admin"} THEN u ELSE "fan"]

\* The coins user u has paid for the first n of the given transactions: a
\* payment in coin mode is debited when it is created.
RECURSIVE CoinsPaid(_, _, _)
CoinsPaid(txns, u, n) ==
  IF n = 0 THEN 0
  ELSE CoinsPaid(txns, u, n - 1)
         + (IF txns[n].payerId = u /\ txns[n].paymentMode = "coin" THEN txns[n].amount ELSE 0)

\* The state in which the given pending transactions, live shows and attendances
\* exist and the User documents of earlier runs hold the given baroniIds.
Start(txns, shows, atts, ids) ==
  /\ coinBalance = [u \in Users |-> InitialCoins - CoinsPaid(txns, u, Len(txns))]
  /\ transactions = txns
  /\ pc = [c \in Clients |-> "idle"]
  /\ req = [c \in Clients |-> NoRequest]
  /\ sess = [c \in Clients |-> EmptySession]
  /\ ret = NoReturn
  /\ succeeded = NoSuccess
  /\ dedications = <<>>
  /\ attendances = atts
  /\ liveShows = shows
  /\ handler = [c \in Clients |-> IdleHandler]
  /\ appointments = <<>>
  /\ timeSlots = [t \in 1..MaxSlots |-> "available"]
  /\ role = Roles
  /\ baroniId = [u \in Users |-> 0]
  /\ seeded = ids

Init == Start(<<>>, <<>>, <<>>, {})

----
\* The storage layer's session primitives.

\* Mutant: no conflict is detected, as when the writes are not made in a session.
NoWriteConflict(stale, locked) == FALSE

\* A write by a session conflicts when the document was committed by another
\* session since this session's snapshot (stale), or is written by a session
\* that is still open (locked).
WriteConflict(stale, locked) == stale \/ locked

\* Mutant: writes of user documents never conflict.
NoUserWriteConflict(c, u) == FALSE

\* A write of user document u by c's session conflicts.
UserWriteConflict(c, u) ==
  WriteConflict(u \in sess[c].staleUsers, \E d \in Clients \ {c} : u \in sess[d].users)

\* A write of transaction document t by c's session conflicts.
TxnWriteConflict(c, t) ==
  WriteConflict(t \in sess[c].staleTxns, \E d \in Clients \ {c} : t \in sess[d].txns)

\* findByIdAndUpdate(u, {$inc: {coinBalance: n}}, {session}): no document, no write.
IncCoinBalance(s, u, n) ==
  IF u \in Users
    THEN [s EXCEPT !.inc[u] = @ + n, !.users = @ \cup {u}]
    ELSE s

\* Mutant: the error reaches the caller, but the increments made before it are
\* not rolled back.
ThrowWithoutRollback(c, r, msg) ==
  /\ coinBalance' = [u \in Users |-> coinBalance[u] + sess[c].inc[u]]
  /\ sess' = [sess EXCEPT ![c] = EmptySession]
  /\ pc' = [pc EXCEPT ![c] = "idle"]
  /\ req' = [req EXCEPT ![c] = NoRequest]
  /\ ret' = Returned(c, r, msg)
  /\ UNCHANGED <<transactions, succeeded>>
  /\ UNCHANGED bookingVars

\* The callback threw: the session is aborted and the error reaches the caller
\* of request r.
Throw(c, r, msg) ==
  /\ sess' = [sess EXCEPT ![c] = EmptySession]
  /\ pc' = [pc EXCEPT ![c] = "idle"]
  /\ req' = [req EXCEPT ![c] = NoRequest]
  /\ ret' = Returned(c, r, msg)
  /\ UNCHANGED <<coinBalance, transactions, succeeded>>
  /\ UNCHANGED bookingVars

\* A write conflict: withTransaction aborts and runs the callback again.
Retry(c) ==
  /\ sess' = [sess EXCEPT ![c] = EmptySession]
  /\ pc' = [pc EXCEPT ![c] = "begin"]
  /\ ret' = NoReturn
  /\ UNCHANGED <<coinBalance, transactions, req, succeeded>>
  /\ UNCHANGED bookingVars

\* The callback of request r goes on to its next step with the session s.
Goto(c, r, s, next) ==
  /\ sess' = [sess EXCEPT ![c] = s]
  /\ pc' = [pc EXCEPT ![c] = next]
  /\ req' = [req EXCEPT ![c] = r]
  /\ ret' = NoReturn
  /\ UNCHANGED <<coinBalance, transactions, succeeded>>
  /\ UNCHANGED bookingVars

\* The creations in progress, which may each still add a record.
CreatesInFlight == {c \in Clients : req[c].op = "create"}

----
\* createTransaction (lines 17-69)

CreateRequests ==
  {[op |-> "create", payerId |-> pr[1], receiverId |-> pr[2], amount |-> a,
    paymentMode |-> m, transactionId |-> 0] :
     pr \in Parties, a \in 0..MaxAmount, m \in PaymentModes}

\* Mutant: the balance is not checked.
AlwaysSufficient(balance, amount) == TRUE

\* Mutant: the check lets the payer overdraw by one coin.
SufficientBalanceOffByOne(balance, amount) == ~(balance + 1 < amount)

\* payer.coinBalance < amount does not hold (line 36).
SufficientBalance(balance, amount) == ~(balance < amount)

\* Mutant: in coin mode the payer is debited in the store before the balance is
\* checked, and the failed check does not give the coins back.
CreateValidateDebitFirst(c, r) ==
  IF r.amount > 0 /\ r.paymentMode = "coin" /\ r.payerId \in Users
       /\ coinBalance[r.payerId] < r.amount
    THEN /\ coinBalance' = [coinBalance EXCEPT ![r.payerId] = @ - r.amount]
         /\ sess' = [sess EXCEPT ![c] = EmptySession]
         /\ pc' = [pc EXCEPT ![c] = "idle"]
         /\ req' = [req EXCEPT ![c] = NoRequest]
         /\ ret' = Returned(c, r, ErrInsufficient)
         /\ UNCHANGED <<transactions, succeeded>>
         /\ UNCHANGED bookingVars
    ELSE IF r.amount <= 0
      THEN Throw(c, r, ErrAmount)
      ELSE IF r.paymentMode = "coin"
        THEN IF r.payerId \notin Users
               THEN Throw(c, r, ErrPayerNotFound)
               ELSE Goto(c, r, OpenSession, "debit")
        ELSE Goto(c, r, EmptySession, "insert")

\* Mutant: the payer is read, checked and debited in external mode as well.
CreateValidateDebitAlways(c, r) ==
  IF r.amount <= 0
    THEN Throw(c, r, ErrAmount)
    ELSE IF r.payerId \notin Users
      THEN Throw(c, r, ErrPayerNotFound)
      ELSE IF ~SufficientBalance(coinBalance[r.payerId], r.amount)
        THEN Throw(c, r, ErrInsufficient)
        ELSE Goto(c, r, OpenSession, "debit")

\* Lines 22-38, the callback up to its first write: the amount is validated and,
\* in coin mode, the payer is read and checked.
CreateValidate(c, r) ==
  IF r.amount <= 0
    THEN Throw(c, r, ErrAmount)
    ELSE IF r.paymentMode = "coin"
      THEN IF r.payerId \notin Users
             THEN Throw(c, r, ErrPayerNotFound)
             ELSE IF ~SufficientBalance(coinBalance[r.payerId], r.amount)
               THEN Throw(c, r, ErrInsufficient)
               ELSE Goto(c, r, OpenSession, "debit")
      ELSE Goto(c, r, EmptySession, "insert")

\* A caller calls createTransaction(transactionData); the callback runs to its
\* first write.
createTransaction(c) ==
  /\ pc[c] = "idle"
  /\ Len(transactions) + Cardinality(CreatesInFlight) < MaxTransactions
  /\ \E r \in CreateRequests : CreateValidate(c, r)

\* withTransaction runs the callback again after a write conflict.
CreateAgain(c) ==
  /\ pc[c] = "begin" /\ req[c].op = "create"
  /\ CreateValidate(c, req[c])

\* Mutant: the payer is not debited at creation.
CreateDebitNothing(c) ==
  /\ pc[c] = "debit" /\ req[c].op = "create"
  /\ Goto(c, req[c], sess[c], "insert")

\* Lines 41-45: $inc the payer's coinBalance by -amount.
CreateDebit(c) ==
  /\ pc[c] = "debit" /\ req[c].op = "create"
  /\ IF UserWriteConflict(c, req[c].payerId)
       THEN Retry(c)
       ELSE Goto(c, req[c], IncCoinBalance(sess[c], req[c].payerId, -req[c].amount),
                 "insert")

\* Mutant: the record is written with the payer and the receiver exchanged.
NewTransactionSwapped(r) ==
  [payerId |-> r.receiverId, receiverId |-> r.payerId, amount |-> r.amount,
   paymentMode |-> r.paymentMode, status |-> "pending"]

\* The document Transaction.create writes (lines 49-58).
NewTransaction(r) ==
  [payerId |-> r.payerId, receiverId |-> r.receiverId, amount |-> r.amount,
   paymentMode |-> r.paymentMode, status |-> "pending"]

\* Lines 49-58: Transaction.create; receiverId is required by the schema, and
\* the validation error aborts the session with the debit in it.
CreateInsert(c) ==
  /\ pc[c] = "insert" /\ req[c].op = "create"
  /\ IF req[c].receiverId = NullId
       THEN Throw(c, req[c], ErrValidation)
       ELSE Goto(c, req[c],
                 [sess[c] EXCEPT !.open = TRUE, !.insert = <<NewTransaction(req[c])>>],
                 "commit")

----
\* completeTransaction (lines 76-109), cancelTransaction (lines 116-150),
\* refundTransaction (lines 157-196)

\* The requests on a transaction id; an id past the last record is of no record.
RequestsOn(op) ==
  {[op |-> op, payerId |-> NullId, receiverId |-> NullId, amount |-> 0,
    paymentMode |-> "none", transactionId |-> t] : t \in 1..MaxTransactions}

\* Transaction.findById(transactionId) found a document.
Found(t) == t \in DOMAIN transactions

\* Mutant: completeTransaction refuses only a cancelled transaction.
CompleteUnlessCancelled(status) == status # "cancelled"

\* The status completeTransaction requires (line 86).
CompletePrecondition(status) == status = "pending"

\* The status cancelTransaction requires (line 126).
CancelPrecondition(status) == status = "pending"

\* Mutant: refundTransaction refuses only a transaction already refunded.
RefundUnlessRefunded(status) == status # "refunded"

\* The status refundTransaction requires (line 167).
RefundPrecondition(status) == status = "completed"

\* The document of the transaction c's request names.
Doc(c) == transactions[req[c].transactionId]

\* transaction.status = s; transaction.save({session}).
SaveStatus(c, s) ==
  /\ pc[c] = "save"
  /\ IF TxnWriteConflict(c, req[c].transactionId)
       THEN Retry(c)
       ELSE Goto(c, req[c],
                 [sess[c] EXCEPT !.status = s, !.txns = @ \cup {req[c].transactionId}],
                 "commit")

\* Lines 81-88: the transaction is read and its status checked.
CompleteValidate(c, r) ==
  IF ~Found(r.transactionId)
    THEN Throw(c, r, ErrNotFound)
    ELSE IF ~CompletePrecondition(transactions[r.transactionId].status)
      THEN Throw(c, r, ErrNotPending)
      ELSE Goto(c, r, OpenSession, "credit")

completeTransaction(c) ==
  /\ pc[c] = "idle"
  /\ \E r \in RequestsOn("complete") : CompleteValidate(c, r)

CompleteAgain(c) ==
  /\ pc[c] = "begin" /\ req[c].op = "complete"
  /\ CompleteValidate(c, req[c])

\* Mutant: only a coin-mode transaction credits the receiver on completion.
CompleteCreditCoinOnly(c) ==
  /\ pc[c] = "credit" /\ req[c].op = "complete"
  /\ IF Doc(c).paymentMode # "coin"
       THEN Goto(c, req[c], sess[c], "save")
       ELSE IF UserWriteConflict(c, Doc(c).receiverId)
         THEN Retry(c)
         ELSE Goto(c, req[c],
                   IncCoinBalance(sess[c], Doc(c).receiverId, Doc(c).amount), "save")

\* Lines 91-95: $inc the receiver's coinBalance by amount.
CompleteCredit(c) ==
  /\ pc[c] = "credit" /\ req[c].op = "complete"
  /\ IF UserWriteConflict(c, Doc(c).receiverId)
       THEN Retry(c)
       ELSE Goto(c, req[c], IncCoinBalance(sess[c], Doc(c).receiverId, Doc(c).amount),
                 "save")

\* Lines 98-99.
CompleteSave(c) == req[c].op = "complete" /\ SaveStatus(c, "completed")

\* Lines 121-128.
CancelValidate(c, r) ==
  IF ~Found(r.transactionId)
    THEN Throw(c, r, ErrNotFound)
    ELSE IF ~CancelPrecondition(transactions[r.transactionId].status)
      THEN Throw(c, r, ErrNotPending)
      ELSE Goto(c, r, OpenSession, "credit")

cancelTransaction(c) ==
  /\ pc[c] = "idle"
  /\ \E r \in RequestsOn("cancel") : CancelValidate(c, r)

CancelAgain(c) ==
  /\ pc[c] = "begin" /\ req[c].op = "cancel"
  /\ CancelValidate(c, req[c])

\* Mutant: a cancellation pays the amount to the receiver.
CancelCreditReceiver(c) ==
  /\ pc[c] = "credit" /\ req[c].op = "cancel"
  /\ IF UserWriteConflict(c, Doc(c).receiverId)
       THEN Retry(c)
       ELSE Goto(c, req[c], IncCoinBalance(sess[c], Doc(c).receiverId, Doc(c).amount),
                 "save")

\* Lines 132-136: $inc the payer's coinBalance by amount.
CancelCredit(c) ==
  /\ pc[c] = "credit" /\ req[c].op = "cancel"
  /\ IF UserWriteConflict(c, Doc(c).payerId)
       THEN Retry(c)
       ELSE Goto(c, req[c], IncCoinBalance(sess[c], Doc(c).payerId, Doc(c).amount),
                 "save")

\* Lines 139-140.
CancelSave(c) == req[c].op = "cancel" /\ SaveStatus(c, "cancelled")

\* Mutant: refundTransaction checks that the receiver still holds the amount.
RefundValidateChecked(c, r) ==
  IF ~Found(r.transactionId)
    THEN Throw(c, r, ErrNotFound)
    ELSE IF ~RefundPrecondition(transactions[r.transactionId].status)
      THEN Throw(c, r, ErrNotCompleted)
      ELSE IF coinBalance[transactions[r.transactionId].receiverId]
                < transactions[r.transactionId].amount
        THEN Throw(c, r, ErrInsufficient)
        ELSE Goto(c, r, OpenSession, "debit")

\* Lines 162-169.
RefundValidate(c, r) ==
  IF ~Found(r.transactionId)
    THEN Throw(c, r, ErrNotFound)
    ELSE IF ~RefundPrecondition(transactions[r.transactionId].status)
      THEN Throw(c, r, ErrNotCompleted)
      ELSE Goto(c, r, OpenSession, "debit")

refundTransaction(c) ==
  /\ pc[c] = "idle"
  /\ \E r \in RequestsOn("refund") : RefundValidate(c, r)

RefundAgain(c) ==
  /\ pc[c] = "begin" /\ req[c].op = "refund"
  /\ RefundValidate(c, req[c])

\* Lines 172-176: $inc the receiver's coinBalance by -amount.
RefundDebit(c) ==
  /\ pc[c] = "debit" /\ req[c].op = "refund"
  /\ IF UserWriteConflict(c, Doc(c).receiverId)
       THEN Retry(c)
       ELSE Goto(c, req[c], IncCoinBalance(sess[c], Doc(c).receiverId, -Doc(c).amount),
                 "credit")

\* Lines 178-182: $inc the payer's coinBalance by amount.
RefundCredit(c) ==
  /\ pc[c] = "credit" /\ req[c].op = "refund"
  /\ IF UserWriteConflict(c, Doc(c).payerId)
       THEN Retry(c)
       ELSE Goto(c, req[c], IncCoinBalance(sess[c], Doc(c).payerId, Doc(c).amount),
                 "save")

\* Lines 185-186.
RefundSave(c) == req[c].op = "refund" /\ SaveStatus(c, "refunded")

----
\* The end of withTransaction and of the call.

\* The Transaction collection with the session's writes applied.
CommittedTransactions(s, t) ==
  IF s.status # "none"
    THEN [transactions EXCEPT ![t].status = s.status]
    ELSE transactions \o s.insert

\* The users' balances with the session's increments applied.
CommittedBalances(s) == [u \in Users |-> coinBalance[u] + s.inc[u]]

\* The record of successes with the success of request r added.
Succeeded(r) ==
  IF r.op = "create" THEN succeeded
  ELSE [succeeded EXCEPT ![r.transactionId][r.op] = @ + 1]

\* The callback returned: the session's writes are committed together, the
\* documents written become stale for the sessions whose snapshot is older, and
\* the call returns its success result.
Commit(c) ==
  /\ pc[c] = "commit"
  /\ coinBalance' = CommittedBalances(sess[c])
  /\ transactions' = CommittedTransactions(sess[c], req[c].transactionId)
  /\ sess' = [d \in Clients |->
                IF d = c THEN EmptySession
                ELSE IF sess[d].open
                  THEN [sess[d] EXCEPT !.staleUsers = @ \cup sess[c].users,
                                       !.staleTxns = @ \cup sess[c].txns]
                  ELSE sess[d]]
  /\ pc' = [pc EXCEPT ![c] = "idle"]
  /\ req' = [req EXCEPT ![c] = NoRequest]
  /\ ret' = Returned(c, req[c], Success)
  /\ succeeded' = Succeeded(req[c])
  /\ UNCHANGED bookingVars

----
Next ==
  \E c \in Clients :
    \/ createTransaction(c)
    \/ CreateAgain(c)
    \/ CreateDebit(c)
    \/ CreateInsert(c)
    \/ completeTransaction(c)
    \/ CompleteAgain(c)
    \/ CompleteCredit(c)
    \/ CompleteSave(c)
    \/ cancelTransaction(c)
    \/ CancelAgain(c)
    \/ CancelCredit(c)
    \/ CancelSave(c)
    \/ refundTransaction(c)
    \/ RefundAgain(c)
    \/ RefundDebit(c)
    \/ RefundCredit(c)
    \/ RefundSave(c)
    \/ Commit(c)

Spec == Init /\ [][Next]_vars

----
(***************************************************************************)
(* The booking controllers: src/controllers/dedicationRequest.js and the    *)
(* live show controller.  A request handler runs from one await to the next *)
(* as one step, and the handlers of other requests run in between.  An      *)
(* engine call a handler awaits is taken as the one step in which its       *)
(* withTransaction commits or throws: nothing of the call is in the store   *)
(* before.  The caller is the fan or the star the route's role filter       *)
(* admits.                                                                  *)
(***************************************************************************)

\* req.user of the fan's routes, and the star that is booked.
Fan == "fan"
Star == "star"

\* The fans that join live shows, and the admin user (User.findOne({role: 'admin'})).
Fans == {"fan", "fan2"}
Admin == "admin"

\* TRANSACTION_TYPES (utils/transactionConstants.js).
TypeDedication == "dedication_request_payment"
TypeAttendance == "live_show_attendance_payment"
TypeHosting == "live_show_hosting_payment"
TypeBecomeStar == "become_star_payment"

\* The booking ids a caller may pass; one past the last record is of no record.
BookingIds == 1..MaxBookings

\* The live show ids a caller may pass.
ShowIds == 1..MaxShows

\* The handler goes on to its next await.
Continue(c, h) ==
  /\ handler' = [handler EXCEPT ![c] = h]
  /\ ret' = NoReturn
  /\ UNCHANGED <<pc, req, sess, succeeded>>

\* res.status(code).json(...): the handler ends.
Reply(c, h, code) ==
  /\ handler' = [handler EXCEPT ![c] = IdleHandler]
  /\ ret' = Returned(c, h, code)
  /\ UNCHANGED <<pc, req, sess, succeeded>>

\* The handlers that may each still add a booking.
BookingsInFlight ==
  {c \in Clients : handler[c].op \in {"createDedicationRequest", "joinLiveShow"}}

RoomForBooking ==
  Len(dedications) + Len(attendances) + Cardinality(BookingsInFlight) < MaxBookings

\* What createTransaction(r) returns when its callback runs on the store as it
\* is (lines 22-58).
CreateOutcome(r) ==
  IF r.amount <= 0 THEN ErrAmount
  ELSE IF r.paymentMode = "coin" /\ r.payerId \notin Users THEN ErrPayerNotFound
  ELSE IF r.paymentMode = "coin" /\ ~SufficientBalance(coinBalance[r.payerId], r.amount)
    THEN ErrInsufficient
  ELSE IF r.receiverId = NullId THEN ErrValidation
  ELSE Success

\* The session's writes are committed to the store.
Commits(s, t) ==
  /\ coinBalance' = CommittedBalances(s)
  /\ transactions' = CommittedTransactions(s, t)

\* createTransaction({type, ...r}) awaited by a handler.
CreateCall(r, type) ==
  IF CreateOutcome(r) = Success
    THEN Commits([(IF r.paymentMode = "coin"
                     THEN IncCoinBalance(OpenSession, r.payerId, -r.amount)
                     ELSE OpenSession)
                  EXCEPT !.insert = <<[type |-> type] @@ NewTransaction(r)>>], 0)
    ELSE UNCHANGED <<coinBalance, transactions>>

\* What completeTransaction(t) and cancelTransaction(t) return (lines 81-88,
\* 121-128).
CompleteOutcome(t) ==
  IF ~Found(t) THEN ErrNotFound
  ELSE IF ~CompletePrecondition(transactions[t].status) THEN ErrNotPending
  ELSE Success

CancelOutcome(t) ==
  IF ~Found(t) THEN ErrNotFound
  ELSE IF ~CancelPrecondition(transactions[t].status) THEN ErrNotPending
  ELSE Success

\* completeTransaction(t) awaited by a handler.
CompleteCall(t) ==
  IF CompleteOutcome(t) = Success
    THEN Commits([IncCoinBalance(OpenSession, transactions[t].receiverId,
                                 transactions[t].amount)
                  EXCEPT !.status = "completed", !.txns = {t}], t)
    ELSE UNCHANGED <<coinBalance, transactions>>

\* cancelTransaction(t) awaited by a handler.
CancelCall(t) ==
  IF CancelOutcome(t) = Success
    THEN Commits([IncCoinBalance(OpenSession, transactions[t].payerId,
                                 transactions[t].amount)
                  EXCEPT !.status = "cancelled", !.txns = {t}], t)
    ELSE UNCHANGED <<coinBalance, transactions>>

\* Transaction.findOne({payerId, receiverId, type, status: 'pending'})
\*   .sort({createdAt: -1}): the id of the latest such record, 0 if there is none.
LatestPending(payer, receiver, type) ==
  LET found == {i \in DOMAIN transactions :
                  /\ transactions[i].payerId = payer
                  /\ transactions[i].receiverId = receiver
                  /\ transactions[i].type = type
                  /\ transactions[i].status = "pending"}
  IN IF found = {} THEN 0 ELSE CHOOSE i \in found : \A j \in found : j <= i

----
\* src/controllers/dedicationRequest.js

\* The transactionData of a payment.
PaymentBy(payer, receiver, price, mode) ==
  [op |-> "create", payerId |-> payer, receiverId |-> receiver, amount |-> price,
   paymentMode |-> mode, transactionId |-> 0]

\* The payment the fan's request body asks for.
Payment(price, mode) == PaymentBy(Fan, Star, price, mode)

\* DedicationRequest.findOne({_id: id, status}) found a document.
FoundRequest(id, status) == id \in DOMAIN dedications /\ dedications[id].status = status

\* item.status = status; item.save(): the loaded document's changed paths are
\* written by _id, whatever the stored status is by now.
SaveRequest(c, status) ==
  /\ dedications' = [dedications EXCEPT ![handler[c].id].status = status]
  /\ Reply(c, handler[c], "200")
  /\ UNCHANGED <<coinBalance, transactions, attendances, liveShows>>
  /\ UNCHANGED <<appointmentVars, accountVars>>

\* The handler read the request and goes on, or answers 404.
FindRequest(c, op, status, next) ==
  /\ handler[c].at = "idle"
  /\ \E id \in BookingIds :
       LET h == [IdleHandler EXCEPT !.op = op, !.id = id]
       IN IF FoundRequest(id, status)
            THEN Continue(c, [h EXCEPT !.at = next,
                                       !.txn = dedications[id].transactionId])
            ELSE Reply(c, h, "404")
  /\ UNCHANGED <<coinBalance, transactions, dedications, attendances, liveShows>>
  /\ UNCHANGED <<appointmentVars, accountVars>>

\* Lines 33-61: the fan asks for a dedication; the payment is created first.
createDedicationRequest(c) ==
  /\ handler[c].at = "idle"
  /\ RoomForBooking
  /\ \E price \in 0..MaxPrice, mode \in PaymentModes :
       LET h == [IdleHandler EXCEPT !.op = "createDedicationRequest", !.price = price,
                                    !.paymentMode = mode,
                                    !.result = CreateOutcome(Payment(price, mode))]
       IN /\ CreateCall(Payment(price, mode), TypeDedication)
          /\ IF h.result = Success
               THEN Continue(c, [h EXCEPT !.at = "lookup"])
               ELSE Reply(c, h, "400")
  /\ UNCHANGED <<dedications, attendances, liveShows>>
  /\ UNCHANGED <<appointmentVars, accountVars>>

\* Lines 64-76: the transaction just created is looked up as the fan's latest
\* pending payment of this type to the star.
DedicationLookup(c) ==
  /\ handler[c].op = "createDedicationRequest" /\ handler[c].at = "lookup"
  /\ LET t == LatestPending(Fan, Star, TypeDedication)
     IN IF t = 0
          THEN Reply(c, handler[c], "500")
          ELSE Continue(c, [handler[c] EXCEPT !.at = "insert", !.txn = t])
  /\ UNCHANGED <<coinBalance, transactions, dedications, attendances, liveShows>>
  /\ UNCHANGED <<appointmentVars, accountVars>>

\* Lines 79-100: DedicationRequest.create, its status the schema's default.
DedicationInsert(c) ==
  /\ handler[c].op = "createDedicationRequest" /\ handler[c].at = "insert"
  /\ dedications' =
       Append(dedications,
              [fanId |-> Fan, starId |-> Star, price |-> handler[c].price,
               status |-> "pending", transactionId |-> handler[c].txn])
  /\ Reply(c, handler[c], "201")
  /\ UNCHANGED <<coinBalance, transactions, attendances, liveShows>>
  /\ UNCHANGED <<appointmentVars, accountVars>>

\* Lines 166-180.
approveDedicationRequest(c) == FindRequest(c, "approveDedicationRequest", "pending", "save")

\* Mutant: the payment is completed on approval ("pay on acceptance").
ApproveSaveCompletes(c) ==
  /\ handler[c].op = "approveDedicationRequest" /\ handler[c].at = "save"
  /\ CompleteCall(handler[c].txn)
  /\ dedications' = [dedications EXCEPT ![handler[c].id].status = "approved"]
  /\ Reply(c, handler[c], "200")
  /\ UNCHANGED <<attendances, liveShows>>
  /\ UNCHANGED <<appointmentVars, accountVars>>

\* Lines 182-194.
ApproveSave(c) ==
  /\ handler[c].op = "approveDedicationRequest" /\ handler[c].at = "save"
  /\ SaveRequest(c, "approved")

\* Lines 201-215.
rejectDedicationRequest(c) == FindRequest(c, "rejectDedicationRequest", "pending", "cancel")

\* Lines 221-228 and 308-315: cancelTransaction(item.transactionId); an error
\* is logged and the handler goes on.
CancelPayment(c, op) ==
  /\ handler[c].op = op /\ handler[c].at = "cancel"
  /\ CancelCall(handler[c].txn)
  /\ Continue(c, [handler[c] EXCEPT !.at = "save", !.result = CancelOutcome(handler[c].txn)])
  /\ UNCHANGED <<dedications, attendances, liveShows>>
  /\ UNCHANGED <<appointmentVars, accountVars>>

RejectCancel(c) == CancelPayment(c, "rejectDedicationRequest")

\* Lines 217-218, 230-239.
RejectSave(c) ==
  /\ handler[c].op = "rejectDedicationRequest" /\ handler[c].at = "save"
  /\ SaveRequest(c, "rejected")

\* Lines 246-264.
uploadDedicationVideo(c) == FindRequest(c, "uploadDedicationVideo", "approved", "complete")

\* Mutant: a failed completeTransaction is logged and the upload goes on.
UploadCompleteAnyway(c) ==
  /\ handler[c].op = "uploadDedicationVideo" /\ handler[c].at = "complete"
  /\ CompleteCall(handler[c].txn)
  /\ Continue(c, [handler[c] EXCEPT !.at = "save",
                                    !.result = CompleteOutcome(handler[c].txn)])
  /\ UNCHANGED <<dedications, attendances, liveShows>>
  /\ UNCHANGED <<appointmentVars, accountVars>>

\* Lines 267-276: completeTransaction(item.transactionId); an error ends the
\* handler with 500.
UploadComplete(c) ==
  /\ handler[c].op = "uploadDedicationVideo" /\ handler[c].at = "complete"
  /\ CompleteCall(handler[c].txn)
  /\ LET h == [handler[c] EXCEPT !.result = CompleteOutcome(handler[c].txn)]
     IN IF h.result = Success
          THEN Continue(c, [h EXCEPT !.at = "save"])
          ELSE Reply(c, h, "500")
  /\ UNCHANGED <<dedications, attendances, liveShows>>
  /\ UNCHANGED <<appointmentVars, accountVars>>

\* Lines 279-287: uploadVideo(req.file.buffer) is awaited outside the try block
\* of completeTransaction.  When it returns the request is saved as completed;
\* when it rejects the outer catch answers 500 and the request is not saved.
UploadSave(c) ==
  /\ handler[c].op = "uploadDedicationVideo" /\ handler[c].at = "save"
  /\ \/ SaveRequest(c, "completed")
     \/ /\ Reply(c, handler[c], "500")
        /\ UNCHANGED <<coinBalance, transactions, dedications, attendances, liveShows>>
        /\ UNCHANGED <<appointmentVars, accountVars>>

\* Lines 291-305.
cancelDedicationRequest(c) == FindRequest(c, "cancelDedicationRequest", "pending", "cancel")

CancelRequestCancel(c) == CancelPayment(c, "cancelDedicationRequest")

\* Lines 317-321.
CancelRequestSave(c) ==
  /\ handler[c].op = "cancelDedicationRequest" /\ handler[c].at = "save"
  /\ SaveRequest(c, "cancelled")

----
\* The live show controller (src/unnamed/part_018): createLiveShow,
\* joinLiveShow, cancelLiveShow and completeLiveShowAttendance.  The star's
\* routes are called by the star.

\* The star pays for the hosting of at most MaxShows shows.
RoomForShow == Len(transactions) < MaxShows

\* The handlers that may each still add an attendance.

JoinsInFlight == {c \in Clients : handler[c].op = "joinLiveShow"}

RoomForAttendance == Len(attendances) + Cardinality(JoinsInFlight) < MaxAttendances

\* LiveShow.findById(id) found a document.
FoundShow(id) == id \in DOMAIN liveShows

\* Lines 76-108: the star asks for a new show; the admin user is looked up and
\* the hosting payment to the admin is created first.
createLiveShow(c) ==
  /\ handler[c].at = "idle"
  /\ RoomForShow
  /\ \E fee \in 0..MaxPrice, price \in 0..MaxPrice, mode \in PaymentModes,
        thumbnail \in BOOLEAN, capacity \in Capacities :
       LET r == PaymentBy(Star, Admin, price, mode)
           h == [IdleHandler EXCEPT !.op = "createLiveShow", !.user = Star,
                                    !.fee = fee, !.price = price,
                                    !.maxCapacity = capacity,
                                    !.paymentMode = mode, !.thumbnail = thumbnail,
                                    !.result = CreateOutcome(r)]
       IN IF \A u \in Users : role[u] # "admin"
            THEN /\ UNCHANGED <<coinBalance, transactions>>
                 /\ Reply(c, [h EXCEPT !.result = "none"], "500")
            ELSE /\ CreateCall(r, TypeHosting)
                 /\ IF h.result = Success
                      THEN Continue(c, [h EXCEPT !.at = "lookup"])
                      ELSE Reply(c, h, "400")
  /\ UNCHANGED <<dedications, attendances, liveShows>>
  /\ UNCHANGED <<appointmentVars, accountVars>>

\* Lines 111-119: the hosting transaction is looked up as the star's latest
\* pending hosting payment to the admin.
HostingLookup(c) ==
  /\ handler[c].op = "createLiveShow" /\ handler[c].at = "lookup"
  /\ LET t == LatestPending(Star, Admin, TypeHosting)
     IN IF t = 0
          THEN Reply(c, handler[c], "500")
          ELSE Continue(c, [handler[c] EXCEPT !.at = "insert", !.txn = t])
  /\ UNCHANGED <<coinBalance, transactions, dedications, attendances, liveShows>>
  /\ UNCHANGED <<appointmentVars, accountVars>>

\* The document LiveShow.create writes (lines 135-151).
NewShow(h) ==
  [starId |-> h.user, status |-> "active", attendees |-> {}, currentAttendees |-> 0,
   attendanceFee |-> h.fee, hostingPrice |-> h.price, transactionId |-> h.txn,
   maxCapacity |-> h.maxCapacity]

\* Lines 121-162: a show code is generated; without a thumbnail the handler
\* answers 400, else the show is created active.
ShowInsert(c) ==
  /\ handler[c].op = "createLiveShow" /\ handler[c].at = "insert"
  /\ IF ~handler[c].thumbnail
       THEN /\ UNCHANGED liveShows
            /\ Reply(c, handler[c], "400")
       ELSE /\ liveShows' = Append(liveShows, NewShow(handler[c]))
            /\ Reply(c, handler[c], "201")
  /\ UNCHANGED <<coinBalance, transactions, dedications, attendances>>
  /\ UNCHANGED <<appointmentVars, accountVars>>

\* LiveShowAttendance.find({liveShowId, status: 'active'}): the ids found among
\* the first n attendances, in the order the loop visits them.
RECURSIVE ActiveAttendances(_, _)
ActiveAttendances(show, n) ==
  IF n = 0 THEN <<>>
  ELSE IF attendances[n].liveShowId = show /\ attendances[n].status = "active"
    THEN Append(ActiveAttendances(show, n - 1), n)
    ELSE ActiveAttendances(show, n - 1)

\* The attendance the loop is at, and its transaction.
Attendance(c) == Head(handler[c].todo)

AttendancePayment(c) == attendances[Attendance(c)].transactionId

\* The loop goes to its next attendance; after the last one the handler goes on
\* to the statement after the loop.
NextAttendance(c, h, loop, after) ==
  IF Tail(h.todo) = <<>>
    THEN IF after = "reply"
           THEN Reply(c, h, "200")
           ELSE Continue(c, [h EXCEPT !.todo = <<>>, !.at = after])
    ELSE Continue(c, [h EXCEPT !.todo = Tail(h.todo), !.at = loop])

\* attendance.status = status; attendance.save().
SaveAttendance(c, status, loop, after) ==
  /\ attendances' = [attendances EXCEPT ![Attendance(c)].status = status]
  /\ NextAttendance(c, handler[c], loop, after)
  /\ UNCHANGED <<coinBalance, transactions, dedications, liveShows>>
  /\ UNCHANGED <<appointmentVars, accountVars>>

\* Lines 291-293: the show that was read is at capacity.
AtCapacity(show) ==
  show.maxCapacity # Unlimited /\ show.currentAttendees >= show.maxCapacity

\* Lines 273-293: the show is read; it must be active, the fan not in its
\* attendees, and the show not at capacity.
joinLiveShow(c, fan) ==
  /\ handler[c].at = "idle"
  /\ \E id \in ShowIds, mode \in PaymentModes :
       LET h == [IdleHandler EXCEPT !.op = "joinLiveShow", !.user = fan, !.id = id,
                                    !.paymentMode = mode]
       IN IF ~FoundShow(id)
            THEN Reply(c, h, "404")
            ELSE IF liveShows[id].status # "active"
              THEN Reply(c, h, "400")
              ELSE IF fan \in liveShows[id].attendees
                THEN Reply(c, h, "200")
                ELSE IF AtCapacity(liveShows[id])
                  THEN Reply(c, h, "400")
                  ELSE Continue(c, [h EXCEPT !.at = "pay",
                                             !.price = liveShows[id].attendanceFee])
  /\ UNCHANGED <<coinBalance, transactions, dedications, attendances, liveShows>>
  /\ UNCHANGED <<appointmentVars, accountVars>>

\* Lines 296-319: the attendance fee is paid to the show's star if there is one.
JoinPay(c) ==
  /\ handler[c].op = "joinLiveShow" /\ handler[c].at = "pay"
  /\ LET r == PaymentBy(handler[c].user, Star, handler[c].price, handler[c].paymentMode)
     IN IF handler[c].price > 0
          THEN /\ CreateCall(r, TypeAttendance)
               /\ IF CreateOutcome(r) = Success
                    THEN Continue(c, [handler[c] EXCEPT !.at = "lookup", !.result = Success])
                    ELSE Reply(c, [handler[c] EXCEPT !.result = CreateOutcome(r)], "400")
          ELSE /\ UNCHANGED <<coinBalance, transactions>>
               /\ Continue(c, [handler[c] EXCEPT !.at = "lookup"])
  /\ UNCHANGED <<dedications, attendances, liveShows>>
  /\ UNCHANGED <<appointmentVars, accountVars>>

\* Lines 322-334: the fan's latest pending attendance payment to the star is
\* looked up, whether or not one was created.
JoinLookup(c) ==
  /\ handler[c].op = "joinLiveShow" /\ handler[c].at = "lookup"
  /\ LET t == LatestPending(handler[c].user, Star, TypeAttendance)
     IN IF t = 0
          THEN Reply(c, handler[c], "500")
          ELSE Continue(c, [handler[c] EXCEPT !.at = "insert", !.txn = t])
  /\ UNCHANGED <<coinBalance, transactions, dedications, attendances, liveShows>>
  /\ UNCHANGED <<appointmentVars, accountVars>>

\* Lines 337-343: LiveShowAttendance.create; a new attendance is active.
JoinInsert(c) ==
  /\ handler[c].op = "joinLiveShow" /\ handler[c].at = "insert"
  /\ attendances' =
       Append(attendances,
              [liveShowId |-> handler[c].id, fanId |-> handler[c].user, starId |-> Star,
               transactionId |-> handler[c].txn, attendanceFee |-> handler[c].price,
               status |-> "active"])
  /\ Continue(c, [handler[c] EXCEPT !.at = "mark"])
  /\ UNCHANGED <<coinBalance, transactions, dedications, liveShows>>
  /\ UNCHANGED <<appointmentVars, accountVars>>

\* Lines 346-353: $addToSet the fan to the attendees, $inc currentAttendees.
JoinMark(c) ==
  /\ handler[c].op = "joinLiveShow" /\ handler[c].at = "mark"
  /\ liveShows' = [liveShows EXCEPT ![handler[c].id].attendees = @ \cup {handler[c].user},
                                    ![handler[c].id].currentAttendees = @ + 1]
  /\ Reply(c, handler[c], "200")
  /\ UNCHANGED <<coinBalance, transactions, dedications, attendances>>
  /\ UNCHANGED <<appointmentVars, accountVars>>

\* Lines 394-407 and 537-550: the show and its active attendances are read.
FindAttendances(c, op, loop, after) ==
  /\ handler[c].at = "idle"
  /\ \E id \in ShowIds :
       LET h == [IdleHandler EXCEPT !.op = op, !.user = Star, !.id = id,
                                    !.todo = IF FoundShow(id)
                                               THEN ActiveAttendances(id, Len(attendances))
                                               ELSE <<>>]
       IN IF ~FoundShow(id)
            THEN Reply(c, h, "404")
            ELSE IF h.todo = <<>>
              THEN IF after = "reply"
                     THEN Reply(c, h, "200")
                     ELSE Continue(c, [h EXCEPT !.at = after])
              ELSE Continue(c, [h EXCEPT !.at = loop])
  /\ UNCHANGED <<coinBalance, transactions, dedications, attendances, liveShows>>
  /\ UNCHANGED <<appointmentVars, accountVars>>

cancelLiveShow(c) == FindAttendances(c, "cancelLiveShow", "cancel", "close")

\* Mutant: an error of cancelTransaction ends the handler.
ShowCancelPaymentAborts(c) ==
  /\ handler[c].op = "cancelLiveShow" /\ handler[c].at = "cancel"
  /\ CancelCall(AttendancePayment(c))
  /\ LET h == [handler[c] EXCEPT !.result = CancelOutcome(AttendancePayment(c))]
     IN IF h.result = Success
          THEN Continue(c, [h EXCEPT !.at = "save"])
          ELSE Reply(c, h, "500")
  /\ UNCHANGED <<dedications, attendances, liveShows>>
  /\ UNCHANGED <<appointmentVars, accountVars>>

\* Line 411: cancelTransaction(attendance.transactionId); an error is logged and
\* the loop goes to the next attendance.
ShowCancelPayment(c) ==
  /\ handler[c].op = "cancelLiveShow" /\ handler[c].at = "cancel"
  /\ CancelCall(AttendancePayment(c))
  /\ LET h == [handler[c] EXCEPT !.result = CancelOutcome(AttendancePayment(c))]
     IN IF h.result = Success
          THEN Continue(c, [h EXCEPT !.at = "save"])
          ELSE NextAttendance(c, h, "cancel", "close")
  /\ UNCHANGED <<dedications, attendances, liveShows>>
  /\ UNCHANGED <<appointmentVars, accountVars>>

\* Lines 412-414.
ShowCancelSave(c) ==
  /\ handler[c].op = "cancelLiveShow" /\ handler[c].at = "save"
  /\ SaveAttendance(c, "cancelled", "cancel", "close")

\* Mutant: the show's hosting payment is cancelled with the show.
ShowCloseRefundsHosting(c) ==
  /\ handler[c].op = "cancelLiveShow" /\ handler[c].at = "close"
  /\ CancelCall(liveShows[handler[c].id].transactionId)
  /\ liveShows' = [liveShows EXCEPT ![handler[c].id].status = "cancelled"]
  /\ Reply(c, handler[c], "200")
  /\ UNCHANGED <<dedications, attendances>>
  /\ UNCHANGED <<appointmentVars, accountVars>>

\* Lines 421-431: LiveShow.findByIdAndUpdate(id, {status: 'cancelled'}).
ShowClose(c) ==
  /\ handler[c].op = "cancelLiveShow" /\ handler[c].at = "close"
  /\ liveShows' = [liveShows EXCEPT ![handler[c].id].status = "cancelled"]
  /\ Reply(c, handler[c], "200")
  /\ UNCHANGED <<coinBalance, transactions, dedications, attendances>>
  /\ UNCHANGED <<appointmentVars, accountVars>>

completeLiveShowAttendance(c) ==
  FindAttendances(c, "completeLiveShowAttendance", "complete", "reply")

\* Mutant: the attendance is saved as completed whatever completeTransaction
\* returns.
AttendanceCompleteAlways(c) ==
  /\ handler[c].op = "completeLiveShowAttendance" /\ handler[c].at = "complete"
  /\ CompleteCall(AttendancePayment(c))
  /\ Continue(c, [handler[c] EXCEPT !.result = CompleteOutcome(AttendancePayment(c)),
                                    !.at = "save"])
  /\ UNCHANGED <<dedications, attendances, liveShows>>
  /\ UNCHANGED <<appointmentVars, accountVars>>

\* Line 554: completeTransaction(attendance.transactionId); an error is logged
\* and the loop goes to the next attendance.
AttendanceComplete(c) ==
  /\ handler[c].op = "completeLiveShowAttendance" /\ handler[c].at = "complete"
  /\ CompleteCall(AttendancePayment(c))
  /\ LET h == [handler[c] EXCEPT !.result = CompleteOutcome(AttendancePayment(c))]
     IN IF h.result = Success
          THEN Continue(c, [h EXCEPT !.at = "save"])
          ELSE NextAttendance(c, h, "complete", "reply")
  /\ UNCHANGED <<dedications, attendances, liveShows>>
  /\ UNCHANGED <<appointmentVars, accountVars>>

\* Lines 555-556.
AttendanceCompleteSave(c) ==
  /\ handler[c].op = "completeLiveShowAttendance" /\ handler[c].at = "save"
  /\ SaveAttendance(c, "completed", "complete", "reply")

\* cancelTransaction(t) called on an attendance payment by another caller of
\* the engine than the live show controller.
CancelOutOfBand ==
  /\ \E t \in DOMAIN transactions :
       /\ transactions[t].type = TypeAttendance
       /\ CancelOutcome(t) = Success
       /\ CancelCall(t)
  /\ ret' = NoReturn
  /\ UNCHANGED <<pc, req, sess, succeeded>>
  /\ UNCHANGED <<dedications, attendances, liveShows, handler>>
  /\ UNCHANGED <<appointmentVars, accountVars>>

\* The fan's join of a live show, while there is room for a booking.
JoinAsFan(c) == RoomForBooking /\ joinLiveShow(c, Fan)

\* A fan's join of a live show, while there is room for an attendance.
JoinAsAnyFan(c) == RoomForAttendance /\ \E fan \in Fans : joinLiveShow(c, fan)

----
BookingNext ==
  \E c \in Clients :
    \/ createDedicationRequest(c)
    \/ DedicationLookup(c)
    \/ DedicationInsert(c)
    \/ approveDedicationRequest(c)
    \/ ApproveSave(c)
    \/ rejectDedicationRequest(c)
    \/ RejectCancel(c)
    \/ RejectSave(c)
    \/ uploadDedicationVideo(c)
    \/ UploadComplete(c)
    \/ UploadSave(c)
    \/ cancelDedicationRequest(c)
    \/ CancelRequestCancel(c)
    \/ CancelRequestSave(c)
    \/ JoinAsFan(c)
    \/ JoinPay(c)
    \/ JoinLookup(c)
    \/ JoinInsert(c)
    \/ JoinMark(c)
    \/ cancelLiveShow(c)
    \/ ShowCancelPayment(c)
    \/ ShowCancelSave(c)
    \/ ShowClose(c)
    \/ completeLiveShowAttendance(c)
    \/ AttendanceComplete(c)
    \/ AttendanceCompleteSave(c)

\* The star's live show exists, its hosting paid.
BookingInit == Start(<<HostingPayment>>, <<ActiveShow>>, <<>>, {})

BookingSpec == BookingInit /\ [][BookingNext]_vars

----
\* The creation of live shows.
HostingNext ==
  \E c \in Clients :
    \/ createLiveShow(c)
    \/ HostingLookup(c)
    \/ ShowInsert(c)

HostingSpec == Init /\ [][HostingNext]_vars

----
\* A live show with or without an attendance fee, of unlimited or of finite
\* capacity, and the joins of both fans.
JoinInit ==
  \E fee \in 0..MaxPrice, capacity \in Capacities :
    Start(<<HostingPayment>>,
          <<[ActiveShow EXCEPT !.attendanceFee = fee, !.maxCapacity = capacity]>>,
          <<>>, {})

JoinNext ==
  \E c \in Clients :
    \/ JoinAsAnyFan(c)
    \/ JoinPay(c)
    \/ JoinLookup(c)
    \/ JoinInsert(c)
    \/ JoinMark(c)

JoinSpec == JoinInit /\ [][JoinNext]_vars

----
\* A live show that fans have joined, the fan-outs of its star, and the engine
\* called from outside the controller.

\* The fan of the k-th attendance.
Attendee(k) == IF k % 2 = 1 THEN "fan" ELSE "fan2"

\* The pending payments of n attendances in the given payment modes, after the
\* payment of the hosting.
AttendancePayments(n, modes) ==
  <<HostingPayment>> \o
    [k \in 1..n |-> [type |-> TypeAttendance, payerId |-> Attendee(k), receiverId |-> Star,
                     amount |-> MaxPrice, paymentMode |-> modes[k], status |-> "pending"]]

\* The n attendances as joinLiveShow has created them.
Joined(n) ==
  [k \in 1..n |-> [liveShowId |-> 1, fanId |-> Attendee(k), starId |-> Star,
                   transactionId |-> k + 1, attendanceFee |-> MaxPrice,
                   status |-> "active"]]

JoinedShow(n) ==
  [ActiveShow EXCEPT !.attendees = {Attendee(k) : k \in 1..n}, !.currentAttendees = n]

ShowInit ==
  \E n \in 1..MaxAttendances : \E modes \in [1..n -> PaymentModes] :
    /\ \A u \in Users :
         CoinsPaid(AttendancePayments(n, modes), u, n + 1) <= InitialCoins
    /\ Start(AttendancePayments(n, modes), <<JoinedShow(n)>>, Joined(n), {})

ShowNext ==
  \/ \E c \in Clients :
       \/ cancelLiveShow(c)
       \/ ShowCancelPayment(c)
       \/ ShowCancelSave(c)
       \/ ShowClose(c)
       \/ completeLiveShowAttendance(c)
       \/ AttendanceComplete(c)
       \/ AttendanceCompleteSave(c)
  \/ CancelOutOfBand

ShowSpec == ShowInit /\ [][ShowNext]_vars

----
\* src/controllers/appointment.js: the appointments of the fan with the star,
\* on the time slots of the star's availability.

AppointmentIds == 1..MaxAppointments

\* The timeSlotId of a request body; 0 is the id of no time slot.
SlotIds == 0..MaxSlots

FoundAppointment(id) == id \in DOMAIN appointments

FoundSlot(s) == s \in DOMAIN timeSlots

\* The handlers that may each still add an appointment.
AppointmentsInFlight == {c \in Clients : handler[c].op = "createAppointment"}

RoomForAppointment ==
  Len(appointments) + Cardinality(AppointmentsInFlight) < MaxAppointments

\* An appointment handler leaves the wallets, the other bookings and the users
\* alone.
AppointmentOnly ==
  /\ UNCHANGED <<coinBalance, transactions, dedications, attendances, liveShows>>
  /\ UNCHANGED accountVars

\* The handler has read the appointment: its status and its time slot.
ReadAppointment(h, id) ==
  [h EXCEPT !.status = appointments[id].status, !.slot = appointments[id].timeSlotId]

\* Lines 38-49: the availability is read; the slot must exist and be available.
createAppointment(c) ==
  /\ handler[c].at = "idle"
  /\ RoomForAppointment
  /\ \E s \in SlotIds :
       LET h == [IdleHandler EXCEPT !.op = "createAppointment", !.user = Fan, !.newSlot = s]
       IN IF ~FoundSlot(s)
            THEN Reply(c, h, "404")
            ELSE IF timeSlots[s] = "unavailable"
              THEN Reply(c, h, "409")
              ELSE Continue(c, [h EXCEPT !.at = "insert"])
  /\ UNCHANGED appointmentVars
  /\ AppointmentOnly

\* Lines 51-60: Appointment.create with status 'pending'.
AppointmentInsert(c) ==
  /\ handler[c].op = "createAppointment" /\ handler[c].at = "insert"
  /\ appointments' = Append(appointments,
                            [fanId |-> handler[c].user, timeSlotId |-> handler[c].newSlot,
                             status |-> "pending"])
  /\ Reply(c, handler[c], "201")
  /\ UNCHANGED timeSlots
  /\ AppointmentOnly

\* Lines 95-98 and 123-126: the star's handler reads the appointment, which
\* must be pending.
FindPending(c, op) ==
  /\ handler[c].at = "idle"
  /\ \E id \in AppointmentIds :
       LET h == [IdleHandler EXCEPT !.op = op, !.user = Star, !.id = id]
       IN IF ~FoundAppointment(id)
            THEN Reply(c, h, "404")
            ELSE IF appointments[id].status # "pending"
              THEN Reply(c, ReadAppointment(h, id), "400")
              ELSE Continue(c, [ReadAppointment(h, id) EXCEPT !.at = "save"])
  /\ UNCHANGED appointmentVars
  /\ AppointmentOnly

\* appt.status = status; appt.save().
SaveAppointment(c, status) ==
  /\ appointments' = [appointments EXCEPT ![handler[c].id].status = status]
  /\ UNCHANGED timeSlots
  /\ AppointmentOnly

\* Mutant: every appointment that is not cancelled can be approved.
approveAppointmentAnyStatus(c) ==
  /\ handler[c].at = "idle"
  /\ \E id \in AppointmentIds :
       LET h == [IdleHandler EXCEPT !.op = "approveAppointment", !.user = Star, !.id = id]
       IN IF ~FoundAppointment(id)
            THEN Reply(c, h, "404")
            ELSE IF appointments[id].status = "cancelled"
              THEN Reply(c, ReadAppointment(h, id), "400")
              ELSE Continue(c, [ReadAppointment(h, id) EXCEPT !.at = "save"])
  /\ UNCHANGED appointmentVars
  /\ AppointmentOnly

approveAppointment(c) == FindPending(c, "approveAppointment")

\* Lines 100-101.
ApproveAppointmentSave(c) ==
  /\ handler[c].op = "approveAppointment" /\ handler[c].at = "save"
  /\ SaveAppointment(c, "approved")
  /\ Continue(c, [handler[c] EXCEPT !.at = "slot"])

\* Lines 104-113: the appointment's slot is saved as unavailable.
ApproveSlotSave(c) ==
  /\ handler[c].op = "approveAppointment" /\ handler[c].at = "slot"
  /\ timeSlots' = [timeSlots EXCEPT ![handler[c].slot] = "unavailable"]
  /\ Reply(c, handler[c], "200")
  /\ UNCHANGED appointments
  /\ AppointmentOnly

rejectAppointment(c) == FindPending(c, "rejectAppointment")

\* Lines 127-129.
RejectAppointmentSave(c) ==
  /\ handler[c].op = "rejectAppointment" /\ handler[c].at = "save"
  /\ SaveAppointment(c, "rejected")
  /\ Reply(c, handler[c], "200")

\* The statement after the appointment is read: an approved appointment has its
\* slot freed first.
FreeOrSave(status) == IF status = "approved" THEN "free" ELSE "save"

\* Lines 139-147: the fan's handler reads the appointment, which must not be
\* cancelled.
cancelAppointment(c) ==
  /\ handler[c].at = "idle"
  /\ \E id \in AppointmentIds :
       LET h == [IdleHandler EXCEPT !.op = "cancelAppointment", !.user = Fan, !.id = id]
       IN IF ~FoundAppointment(id)
            THEN Reply(c, h, "404")
            ELSE IF appointments[id].status = "cancelled"
              THEN Reply(c, ReadAppointment(h, id), "400")
              ELSE Continue(c, [ReadAppointment(h, id) EXCEPT
                                  !.at = FreeOrSave(appointments[id].status)])
  /\ UNCHANGED appointmentVars
  /\ AppointmentOnly

\* Lines 148-151 and 188-191: the availability of the appointment's slot is
\* read; the slot is freed only if it is unavailable.
SlotRead(c) ==
  /\ handler[c].op \in {"cancelAppointment", "rescheduleAppointment"}
  /\ handler[c].at = "free"
  /\ Continue(c, [handler[c] EXCEPT
                    !.at = IF timeSlots[handler[c].slot] = "unavailable"
                             THEN "freeSave" ELSE "save"])
  /\ UNCHANGED appointmentVars
  /\ AppointmentOnly

\* Lines 152-153 and 192-193: slot.status = 'available'; availability.save().
SlotFree(c) ==
  /\ handler[c].op \in {"cancelAppointment", "rescheduleAppointment"}
  /\ handler[c].at = "freeSave"
  /\ timeSlots' = [timeSlots EXCEPT ![handler[c].slot] = "available"]
  /\ Continue(c, [handler[c] EXCEPT !.at = "save"])
  /\ UNCHANGED appointments
  /\ AppointmentOnly

\* Lines 158-160.
CancelAppointmentSave(c) ==
  /\ handler[c].op = "cancelAppointment" /\ handler[c].at = "save"
  /\ SaveAppointment(c, "cancelled")
  /\ Reply(c, handler[c], "200")

\* Lines 170-177: the fan's handler reads the appointment, which must not be
\* cancelled.
rescheduleAppointment(c) ==
  /\ handler[c].at = "idle"
  /\ \E id \in AppointmentIds, s \in SlotIds :
       LET h == [IdleHandler EXCEPT !.op = "rescheduleAppointment", !.user = Fan,
                                    !.id = id, !.newSlot = s]
       IN IF ~FoundAppointment(id)
            THEN Reply(c, h, "404")
            ELSE IF appointments[id].status = "cancelled"
              THEN Reply(c, ReadAppointment(h, id), "400")
              ELSE Continue(c, [ReadAppointment(h, id) EXCEPT !.at = "slot"])
  /\ UNCHANGED appointmentVars
  /\ AppointmentOnly

\* Lines 180-187: the new slot must exist and be available.
RescheduleSlot(c) ==
  /\ handler[c].op = "rescheduleAppointment" /\ handler[c].at = "slot"
  /\ IF ~FoundSlot(handler[c].newSlot)
       THEN Reply(c, handler[c], "404")
       ELSE IF timeSlots[handler[c].newSlot] = "unavailable"
         THEN Reply(c, handler[c], "409")
         ELSE Continue(c, [handler[c] EXCEPT !.at = FreeOrSave(handler[c].status)])
  /\ UNCHANGED appointmentVars
  /\ AppointmentOnly

\* Lines 199-205: the appointment is moved to the new slot and made pending
\* again; save() writes the paths whose value the handler changed.
RescheduleSave(c) ==
  /\ handler[c].op = "rescheduleAppointment" /\ handler[c].at = "save"
  /\ appointments' =
       [appointments EXCEPT
          ![handler[c].id].timeSlotId =
             IF handler[c].newSlot = handler[c].slot THEN @ ELSE handler[c].newSlot,
          ![handler[c].id].status =
             IF handler[c].status = "pending" THEN @ ELSE "pending"]
  /\ Reply(c, handler[c], "200")
  /\ UNCHANGED timeSlots
  /\ AppointmentOnly

AppointmentNext ==
  \E c \in Clients :
    \/ createAppointment(c)
    \/ AppointmentInsert(c)
    \/ approveAppointment(c)
    \/ ApproveAppointmentSave(c)
    \/ ApproveSlotSave(c)
    \/ rejectAppointment(c)
    \/ RejectAppointmentSave(c)
    \/ cancelAppointment(c)
    \/ SlotRead(c)
    \/ SlotFree(c)
    \/ CancelAppointmentSave(c)
    \/ rescheduleAppointment(c)
    \/ RescheduleSlot(c)
    \/ RescheduleSave(c)

AppointmentSpec == Init /\ [][AppointmentNext]_vars

----
\* src/utils/baroniIdGenerator.js and src/controllers/star.js: the baroniIds
\* and their callers.  An id has IdDigits digits in base Radix (six decimal
\* digits in the source); ids are compared as the strings of their digits,
\* which are equal when the numbers are.

RECURSIVE Power(_, _)
Power(b, n) == IF n = 0 THEN 1 ELSE b * Power(b, n - 1)

\* Line 13: Math.floor(100000 + Math.random() * 900000).
StandardIds == Power(Radix, IdDigits - 1) .. (Power(Radix, IdDigits) - 1)

\* Lines 46-50: the digits a, b, a, b, ... joined.
RECURSIVE Pattern(_, _, _)
Pattern(a, b, n) ==
  IF n = 0 THEN 0
  ELSE Pattern(a, b, n - 1) * Radix + (IF n % 2 = 1 THEN a ELSE b)

PatternTypes == {"AAAAAA", "ABABAB"}

\* Lines 36-50: the id of a pattern type and two digits; the digits are made
\* different only for a pattern type 'ABABA'.
GoldId(patternType, a, b) ==
  LET other == IF patternType = "ABABA" /\ b = a THEN (b + 1) % Radix ELSE b
  IN IF patternType = "AAAAAA" THEN Pattern(a, a, IdDigits) ELSE Pattern(a, other, IdDigits)

\* Lines 36-39: the draws of Math.random().
GoldIds ==
  {GoldId(p, a, b) : p \in PatternTypes, a \in 1..(Radix - 1), b \in 0..(Radix - 1)}

Plans == {"standard", "gold"}

\* The values a generator draws from.
Keyspace(plan) == IF plan = "gold" THEN GoldIds ELSE StandardIds

\* User.findOne({ baroniId }) finds a user.
Taken == seeded \cup {baroniId[u] : u \in {w \in Users : baroniId[w] # 0}}

Free(plan) == Keyspace(plan) \ Taken

\* A step of a handler of this controller leaves the bookings alone.
AccountOnly ==
  /\ UNCHANGED <<dedications, attendances, liveShows>>
  /\ UNCHANGED appointmentVars

\* Lines 13 and 36-50: the generator draws the value v; findOne is called.
PickValue(c, v) ==
  /\ handler[c].at = "pick"
  /\ v \in Keyspace(handler[c].plan)
  /\ Continue(c, [handler[c] EXCEPT !.baroniId = v, !.at = "check"])
  /\ UNCHANGED <<coinBalance, transactions, accountVars>>
  /\ AccountOnly

GeneratePick(c) == \E v \in StandardIds \cup GoldIds : PickValue(c, v)

\* Mutant: the generator returns the value it has drawn.
GenerateUnchecked(c) ==
  /\ handler[c].at = "check"
  /\ Continue(c, [handler[c] EXCEPT !.at = "returned"])
  /\ UNCHANGED <<coinBalance, transactions, accountVars>>
  /\ AccountOnly

\* Lines 16-22 and 53-59: the loop ends and the value is returned if no user
\* has it; else the generator draws again.
GenerateCheck(c) ==
  /\ handler[c].at = "check"
  /\ Continue(c, [handler[c] EXCEPT
                    !.at = IF handler[c].baroniId \in Taken THEN "pick" ELSE "returned"])
  /\ UNCHANGED <<coinBalance, transactions, accountVars>>
  /\ AccountOnly

\* star.js 21-24: getBaroniIdPatterns calls the standard generator.
getBaroniIdPatterns(c) ==
  /\ handler[c].at = "idle"
  /\ Continue(c, [IdleHandler EXCEPT !.op = "getBaroniIdPatterns", !.plan = "standard",
                                     !.at = "pick"])
  /\ UNCHANGED <<coinBalance, transactions, accountVars>>
  /\ AccountOnly

\* star.js 24-27: the standard id is kept and the gold generator is called.
PatternsGold(c) ==
  /\ handler[c].op = "getBaroniIdPatterns" /\ handler[c].at = "returned"
  /\ handler[c].plan = "standard"
  /\ Continue(c, [handler[c] EXCEPT !.id = handler[c].baroniId, !.plan = "gold",
                                    !.at = "pick"])
  /\ UNCHANGED <<coinBalance, transactions, accountVars>>
  /\ AccountOnly

\* star.js 29-41: both ids are sent.
PatternsReply(c) ==
  /\ handler[c].op = "getBaroniIdPatterns" /\ handler[c].at = "returned"
  /\ handler[c].plan = "gold"
  /\ Reply(c, handler[c], "200")
  /\ UNCHANGED <<coinBalance, transactions, accountVars>>
  /\ AccountOnly

\* star.js 66-87: the fan's dedication requests and appointments that are
\* pending or approved, and attendances with such a status.
Commitments(user) ==
  Cardinality({i \in DOMAIN dedications :
                 user = Fan /\ dedications[i].status \in {"pending", "approved"}})
  + Cardinality({i \in DOMAIN appointments :
                   /\ appointments[i].fanId = user
                   /\ appointments[i].status \in {"pending", "approved"}})
  + Cardinality({a \in DOMAIN attendances :
                   /\ attendances[a].fanId = user
                   /\ attendances[a].status \in {"pending", "approved"}})

\* At most MaxStars payments are made to become a star.
RoomForStar == Len(transactions) < MaxStars

\* star.js 55-141: the checks of the user and of the request body, and the
\* payment to the admin.
becomeStar(c, user) ==
  /\ handler[c].at = "idle"
  /\ RoomForStar
  /\ \E plan \in Plans, amount \in 0..MaxPrice, mode \in PaymentModes :
       LET r == PaymentBy(user, Admin, amount, mode)
           h == [IdleHandler EXCEPT !.op = "becomeStar", !.user = user, !.plan = plan,
                                    !.price = amount, !.paymentMode = mode]
       IN IF role[user] # "fan"
            THEN /\ UNCHANGED <<coinBalance, transactions>>
                 /\ Reply(c, h, "403")
            ELSE IF Commitments(user) > 0 \/ amount <= 0
              THEN /\ UNCHANGED <<coinBalance, transactions>>
                   /\ Reply(c, h, "400")
              ELSE /\ CreateCall(r, TypeBecomeStar)
                   /\ IF CreateOutcome(r) = Success
                        THEN Continue(c, [h EXCEPT !.at = "lookup", !.result = Success])
                        ELSE Reply(c, [h EXCEPT !.result = CreateOutcome(r)], "400")
  /\ UNCHANGED accountVars
  /\ AccountOnly

\* star.js 143-152: the payment is looked up as the user's latest pending one.
StarLookup(c) ==
  /\ handler[c].op = "becomeStar" /\ handler[c].at = "lookup"
  /\ LET t == LatestPending(handler[c].user, Admin, TypeBecomeStar)
     IN IF t = 0
          THEN Reply(c, handler[c], "500")
          ELSE Continue(c, [handler[c] EXCEPT !.at = "complete", !.txn = t])
  /\ UNCHANGED <<coinBalance, transactions, accountVars>>
  /\ AccountOnly

\* star.js 155-166: completeTransaction, whose error ends the handler with 500;
\* then the generator of the plan is called.
StarComplete(c) ==
  /\ handler[c].op = "becomeStar" /\ handler[c].at = "complete"
  /\ CompleteCall(handler[c].txn)
  /\ LET h == [handler[c] EXCEPT !.result = CompleteOutcome(handler[c].txn)]
     IN IF h.result = Success
          THEN Continue(c, [h EXCEPT !.at = "pick"])
          ELSE Reply(c, h, "500")
  /\ UNCHANGED accountVars
  /\ AccountOnly

\* star.js 169: User.findByIdAndUpdate(req.user._id, {$set: {role, baroniId}}).
StarSave(c) ==
  /\ handler[c].op = "becomeStar" /\ handler[c].at = "returned"
  /\ role' = [role EXCEPT ![handler[c].user] = "star"]
  /\ baroniId' = [baroniId EXCEPT ![handler[c].user] = handler[c].baroniId]
  /\ Reply(c, handler[c], "200")
  /\ UNCHANGED <<coinBalance, transactions, seeded>>
  /\ AccountOnly

\* becomeStar called by either fan.
StarOfAnyFan(c) == \E user \in Fans : becomeStar(c, user)

StarNext ==
  \E c \in Clients :
    \/ getBaroniIdPatterns(c)
    \/ PatternsGold(c)
    \/ PatternsReply(c)
    \/ StarOfAnyFan(c)
    \/ StarLookup(c)
    \/ StarComplete(c)
    \/ GeneratePick(c)
    \/ GenerateCheck(c)
    \/ StarSave(c)

StarSpec == Init /\ [][StarNext]_vars

\* The User collection holds all the ids of the standard keyspace but two, one
\* or none.
GeneratorInit ==
  \/ Start(<<>>, <<>>, <<>>, StandardIds)
  \/ \E v, w \in StandardIds : Start(<<>>, <<>>, <<>>, StandardIds \ {v, w})

\* The generators called by getBaroniIdPatterns for one client and by the fan's
\* becomeStar for the other.
GeneratorNext ==
  \/ getBaroniIdPatterns("c1")
  \/ PatternsGold("c1")
  \/ PatternsReply("c1")
  \/ becomeStar("c2", Fan)
  \/ StarLookup("c2")
  \/ StarComplete("c2")
  \/ StarSave("c2")
  \/ \E c \in Clients :
       \/ GeneratePick(c)
       \/ GenerateCheck(c)

\* Math.random() is fair: a value that can be drawn again and again is drawn.
GeneratorFairness ==
  \A c \in Clients :
    /\ WF_vars(GenerateCheck(c))
    /\ \A v \in StandardIds \cup GoldIds : SF_vars(PickValue(c, v))

GeneratorSpec == GeneratorInit /\ [][GeneratorNext]_vars /\ GeneratorFairness

----
\* What the claims speak of.

\* The steps of the store: a record is new, or a record's status changed.
IsNew(i) == i \in DOMAIN transactions' /\ i \notin DOMAIN transactions

IsAdvanced(i) ==
  i \in DOMAIN transactions /\ i \in DOMAIN transactions' /\ transactions'[i] # transactions[i]

StoreUnchanged == UNCHANGED <<coinBalance, transactions>>

\* A call returned an error in the step just taken.
Failed(r) == r.result \notin {"none", Success}

\* Client c runs the first part of its callback, up to the first write, in this
\* step: on its call, or again after a write conflict.
Validates(c) ==
  \/ pc[c] = "idle" /\ (pc'[c] # "idle" \/ ret'.client = c)
  \/ pc[c] = "begin" /\ pc'[c] # "begin"

\* The request it runs it for.
Validated(c) == IF ret'.client = c THEN ret'.req ELSE req'[c]

RECURSIVE SumOfBalances(_, _)
SumOfBalances(bal, S) ==
  IF S = {} THEN 0
  ELSE LET u == CHOOSE x \in S : TRUE IN bal[u] + SumOfBalances(bal, S \ {u})

\* The coins in flight: the amounts of the pending coin-mode transactions.
RECURSIVE InFlight(_)
InFlight(txs) ==
  IF txs = <<>> THEN 0
  ELSE (IF Head(txs).paymentMode = "coin" /\ Head(txs).status = "pending"
          THEN Head(txs).amount ELSE 0) + InFlight(Tail(txs))

\* All wallets plus the coins in flight.
TotalCoins(bal, txs) == SumOfBalances(bal, Users) + InFlight(txs)

----
\* C1.  Conservation for coin-mode transactions: a step that creates a coin-mode
\* transaction, or completes or cancels one, leaves the sum of all wallets plus
\* the amounts of the pending coin-mode transactions unchanged, so the sum is
\* the same before createTransaction, between the two calls and after the
\* second one.  (Steps that write no transaction change no wallet either.)
CoinModeStep ==
  \A i \in DOMAIN transactions' :
    (IsNew(i) \/ IsAdvanced(i)) =>
      /\ transactions'[i].paymentMode = "coin"
      /\ transactions'[i].status \in {"pending", "completed", "cancelled"}

----
\* C2.  As claimed: no wallet is ever negative, refundTransaction included.
C2_NeverNegative == \A u \in Users : coinBalance[u] >= 0

\* A transaction was refunded in this step.
RefundStep == \E i \in DOMAIN transactions : IsAdvanced(i) /\ transactions'[i].status = "refunded"

\* C2 as amended: a step of createTransaction, completeTransaction or
\* cancelTransaction taken where every wallet is >= 0 leaves every wallet >= 0;
\* only a refundTransaction makes a wallet negative.
C2_NeverNegativeWithoutRefund ==
  [][(C2_NeverNegative /\ ~RefundStep) => C2_NeverNegative']_vars

\* A payer has spent the whole wallet on a pending coin-mode transaction.
C2_Witness ==
  \E i \in DOMAIN transactions :
    /\ transactions[i].paymentMode = "coin" /\ transactions[i].status = "pending"
    /\ coinBalance[transactions[i].payerId] = 0

----
\* C3.  A transaction is created pending, its status changes only along
\* pending -> completed, pending -> cancelled and completed -> refunded, so
\* cancelled and refunded are terminal, and no record is ever removed or has
\* another field changed.
LegalTransitions ==
  {<<"pending", "completed">>, <<"pending", "cancelled">>, <<"completed", "refunded">>}

C3_StatusTransitions ==
  [][/\ Len(transactions') >= Len(transactions)
     /\ \A i \in DOMAIN transactions' :
          /\ IsNew(i) => transactions'[i].status = "pending"
          /\ IsAdvanced(i) =>
               /\ <<transactions[i].status, transactions'[i].status>> \in LegalTransitions
               /\ transactions'[i] = [transactions[i] EXCEPT !.status = transactions'[i].status]
    ]_vars

\* A call on a refunded transaction and a call on a cancelled one have failed
\* (one of them in the step just taken), and both statuses stand.
C3_Witness ==
  /\ \E i \in DOMAIN transactions : transactions[i].status = "refunded"
  /\ \E i \in DOMAIN transactions : transactions[i].status = "cancelled"
  /\ Failed(ret) /\ ret.req.transactionId \in DOMAIN transactions

----
\* C4.  A call that fails a precondition (an amount <= 0, an insufficient coin
\* balance, a missing transaction, a wrong status) returns in a step that
\* leaves the Transaction collection, every transaction's status and every
\* wallet as they were.
PreconditionErrors == {ErrAmount, ErrInsufficient, ErrNotFound, ErrNotPending, ErrNotCompleted}

C4_FailureChangesNothing ==
  [][ret'.result \in PreconditionErrors => StoreUnchanged]_vars

\* A refundTransaction on a pending transaction has just failed, with coins
\* already escrowed in the store.
C4_Witness ==
  /\ ret.result = ErrNotCompleted
  /\ transactions[ret.req.transactionId].status = "pending"
  /\ transactions[ret.req.transactionId].paymentMode = "coin"

----
\* C5.  A createTransaction in coin mode whose amount is greater than the
\* payer's balance, at the time the callback reads it, fails with the
\* insufficient-balance error, creates no record and changes no wallet.
Overdraws(r) ==
  /\ r.op = "create" /\ r.paymentMode = "coin" /\ r.payerId \in Users
  /\ r.amount > coinBalance[r.payerId]

C5_InsufficientBalance ==
  [][\A c \in Clients :
       (Validates(c) /\ Overdraws(Validated(c))) =>
         (ret' = Returned(c, Validated(c), ErrInsufficient) /\ StoreUnchanged)]_vars

\* A createTransaction has just failed with the insufficient-balance error.
C5_Witness ==
  /\ ret.req.op = "create" /\ ret.result = ErrInsufficient
  /\ ret.req.amount > coinBalance[ret.req.payerId]

----
\* What a wallet must hold given the transactions: the coins the user started
\* with, less each coin-mode amount the user paid into escrow, plus each amount
\* a completed transaction paid the user, plus each amount a cancelled or a
\* refunded transaction paid back to the user.  (A refund takes from the
\* receiver what the completion gave.)
Effect(t, u) ==
    (IF t.paymentMode = "coin" /\ t.payerId = u THEN -t.amount ELSE 0)
  + (IF t.status = "completed" /\ t.receiverId = u THEN t.amount ELSE 0)
  + (IF t.status \in {"cancelled", "refunded"} /\ t.payerId = u THEN t.amount ELSE 0)

RECURSIVE Ledger(_, _)
Ledger(txs, u) ==
  IF txs = <<>> THEN InitialCoins ELSE Effect(Head(txs), u) + Ledger(Tail(txs), u)

\* The wallets with n coins added to user u's, if u is a user.
Credited(bal, u, n) == IF u \in Users THEN [bal EXCEPT ![u] = @ + n] ELSE bal

\* The request r succeeded in the step just taken.
Succeeds(r, op) == ret'.result = Success /\ ret'.req = r /\ r.op = op

----
\* C6.  State-machine closure, for completeTransaction and cancelTransaction
\* alike: a call that finds the transaction pending goes on, and when it
\* succeeds the transaction was still pending, becomes completed (cancelled)
\* and the receiver (the payer) is credited the amount once, nothing else
\* changing; a call that finds it in another status, as the second of two
\* successive calls does, fails with the invalid-state error and changes
\* nothing; so no call succeeds twice on one id.
ClosureOf(op, status, party) ==
  \A c \in Clients :
    LET r == Validated(c)
        t == r.transactionId
    IN /\ (Validates(c) /\ r.op = op /\ Found(t)) =>
            IF transactions[t].status = "pending"
              THEN ret' = NoReturn /\ pc'[c] = "credit" /\ StoreUnchanged
              ELSE ret' = Returned(c, r, ErrNotPending) /\ StoreUnchanged
       /\ Succeeds(req[c], op) =>
            /\ transactions[req[c].transactionId].status = "pending"
            /\ transactions' =
                 [transactions EXCEPT ![req[c].transactionId].status = status]
            /\ coinBalance' =
                 Credited(coinBalance, Doc(c)[party], Doc(c).amount)

C6_StateMachineClosure ==
  /\ [][/\ ClosureOf("complete", "completed", "receiverId")
        /\ ClosureOf("cancel", "cancelled", "payerId")]_vars
  /\ [](\A t \in 1..MaxTransactions :
          succeeded[t].complete <= 1 /\ succeeded[t].cancel <= 1)

\* The second completeTransaction on an id has just failed: the first one
\* succeeded, the transaction is completed, and the receiver holds the one
\* credit.
C6_Witness ==
  /\ ret.req.op = "complete" /\ ret.result = ErrNotPending
  /\ succeeded[ret.req.transactionId].complete = 1
  /\ Len(transactions) = 1
  /\ transactions[1].status = "completed" /\ transactions[1].paymentMode = "coin"
  /\ coinBalance[transactions[1].receiverId] = InitialCoins + transactions[1].amount

----
\* C7.  Two completeTransaction calls on one pending id, interleaved: at most
\* one succeeds; a call that validated the transaction as pending before the
\* other committed never writes the store, and when it returns it returns the
\* invalid-state error; the receiver is credited by the one that succeeds, once.
Loses(c) ==
  /\ req[c].op = "complete" /\ pc[c] # "idle"
  /\ Found(req[c].transactionId) /\ Doc(c).status # "pending"

C7_ConcurrentComplete ==
  /\ [](\A t \in 1..MaxTransactions : succeeded[t].complete <= 1)
  /\ [][\A c \in Clients :
          /\ (Loses(c) /\ pc'[c] # pc[c]) =>
               /\ StoreUnchanged
               /\ ret'.client = c => ret'.result = ErrNotPending
          /\ Succeeds(req[c], "complete") =>
               coinBalance' = Credited(coinBalance, Doc(c).receiverId, Doc(c).amount)
       ]_vars

\* One completeTransaction has just committed while another one on the same id
\* had already read the transaction as pending.
C7_Witness ==
  /\ ret.req.op = "complete" /\ ret.result = Success
  /\ \E d \in Clients \ {ret.client} :
       /\ req[d].op = "complete" /\ req[d].transactionId = ret.req.transactionId
       /\ pc[d] = "credit"

----
\* C8.  A payer cannot overcommit: a coin-mode creation commits only when the
\* payer's committed balance covers its amount, and debits exactly that amount,
\* also when another creation by the same payer committed after this one had
\* checked the balance; hence, as long as the payer has received no coins, the
\* amounts of the payer's coin-mode transactions total at most the coins the
\* payer started with.
RECURSIVE Committed(_, _)
Committed(txs, u) ==
  IF txs = <<>> THEN 0
  ELSE (IF Head(txs).paymentMode = "coin" /\ Head(txs).payerId = u
          THEN Head(txs).amount ELSE 0) + Committed(Tail(txs), u)

ReceivedNothing(u) ==
  \A i \in DOMAIN transactions :
    /\ transactions[i].receiverId = u => transactions[i].status = "pending"
    /\ transactions[i].payerId = u => transactions[i].status \in {"pending", "completed"}

C8_NoOvercommit ==
  /\ [][\A i \in DOMAIN transactions' :
          (IsNew(i) /\ transactions'[i].paymentMode = "coin") =>
            LET p == transactions'[i].payerId
            IN /\ p \in Users
               /\ transactions'[i].amount <= coinBalance[p]
               /\ coinBalance' = [coinBalance EXCEPT ![p] = @ - transactions'[i].amount]
       ]_vars
  /\ [](\A u \in Users : ReceivedNothing(u) => Committed(transactions, u) <= InitialCoins)

\* A coin-mode creation has just committed while another creation by the same
\* payer, which had passed the balance check, now asks more than is left.
C8_Witness ==
  /\ ret.req.op = "create" /\ ret.result = Success /\ ret.req.paymentMode = "coin"
  /\ \E d \in Clients \ {ret.client} :
       /\ req[d].op = "create" /\ req[d].paymentMode = "coin"
       /\ req[d].payerId = ret.req.payerId
       /\ pc[d] = "debit"
       /\ req[d].amount > coinBalance[req[d].payerId]

----
\* C9.  Each operation is one atomic unit: in every state of the store each
\* wallet holds exactly what the transactions' statuses account for, so no
\* wallet shows a debit or a credit whose record is not written or advanced,
\* no record is advanced without its credit, a refund is never half applied,
\* and a call that failed after a write (the debit of a creation whose record
\* is then rejected) has left none of its writes.
C9_AtomicUnits == \A u \in Users : coinBalance[u] = Ledger(transactions, u)

\* A coin-mode creation has just failed at Transaction.create, after its debit.
C9_Witness ==
  /\ ret.req.op = "create" /\ ret.result = ErrValidation
  /\ ret.req.paymentMode = "coin"

----
\* C10.  A coin-mode createTransaction that succeeds had 0 < amount <= the
\* payer's balance, debits the payer by exactly the amount in the step that
\* writes the record, changes no other wallet, and writes exactly one new
\* record: pending, with the given payer, receiver, amount and mode.
C10_CoinCreate ==
  [][\A c \in Clients :
       (Succeeds(req[c], "create") /\ req[c].paymentMode = "coin") =>
         /\ 0 < req[c].amount /\ req[c].amount <= coinBalance[req[c].payerId]
         /\ coinBalance' = [coinBalance EXCEPT ![req[c].payerId] = @ - req[c].amount]
         /\ transactions' =
              Append(transactions,
                     [payerId |-> req[c].payerId, receiverId |-> req[c].receiverId,
                      amount |-> req[c].amount, paymentMode |-> "coin",
                      status |-> "pending"])
    ]_vars

\* Scenario A: a payer who held more than the amount has just created a
\* coin-mode transaction, keeps the rest, and the transaction is pending.
C10_Witness ==
  /\ ret.req.op = "create" /\ ret.result = Success /\ ret.req.paymentMode = "coin"
  /\ coinBalance[ret.req.payerId] > 0
  /\ transactions[Len(transactions)].status = "pending"
  /\ transactions[Len(transactions)].payerId = ret.req.payerId

----
\* C11.  A createTransaction in external mode that succeeds changes no wallet,
\* the payer's and the receiver's included, and writes exactly one new record:
\* pending, in external mode, with the given payer, receiver and amount.
C11_ExternalCreate ==
  [][\A c \in Clients :
       (Succeeds(req[c], "create") /\ req[c].paymentMode = "external") =>
         /\ coinBalance' = coinBalance
         /\ transactions' =
              Append(transactions,
                     [payerId |-> req[c].payerId, receiverId |-> req[c].receiverId,
                      amount |-> req[c].amount, paymentMode |-> "external",
                      status |-> "pending"])
    ]_vars

\* An external-mode creation between two users has just succeeded, for more
\* than the payer holds, and both wallets are as they started.
C11_Witness ==
  /\ ret.req.op = "create" /\ ret.result = Success /\ ret.req.paymentMode = "external"
  /\ ret.req.payerId \in Users /\ ret.req.amount > InitialCoins
  /\ Len(transactions) = 1 /\ transactions[1].status = "pending"
  /\ \A u \in Users : coinBalance[u] = InitialCoins

----
----
\* C13.  Creating a coin-mode transaction and cancelling it is a round trip:
\* once it is cancelled every wallet, the payer's and the receiver's included,
\* holds what it would hold had the transaction never been created (with no
\* other transaction: what it held before the creation), the status is
\* cancelled, and a further cancelTransaction on the id fails with the
\* invalid-state error and changes nothing.
Without(txs, i) == SubSeq(txs, 1, i - 1) \o SubSeq(txs, i + 1, Len(txs))

RoundTrip ==
  \A i \in DOMAIN transactions :
    (transactions[i].paymentMode = "coin" /\ transactions[i].status = "cancelled") =>
      \A u \in Users : coinBalance[u] = Ledger(Without(transactions, i), u)

C13_CreateCancelRoundTrip ==
  /\ []RoundTrip
  /\ [][\A c \in Clients :
          LET r == Validated(c)
          IN (/\ Validates(c) /\ r.op = "cancel" /\ Found(r.transactionId)
              /\ transactions[r.transactionId].status = "cancelled") =>
               (ret' = Returned(c, r, ErrNotPending) /\ StoreUnchanged)
       ]_vars

\* Scenario B: the one transaction, in coin mode, was created and cancelled,
\* both wallets hold what they held before, and a second cancelTransaction has
\* just failed.
C13_Witness ==
  /\ ret.req.op = "cancel" /\ ret.result = ErrNotPending
  /\ Len(transactions) = 1 /\ ret.req.transactionId = 1
  /\ transactions[1].paymentMode = "coin" /\ transactions[1].status = "cancelled"
  /\ succeeded[1].cancel = 1
  /\ \A u \in Users : coinBalance[u] = InitialCoins

----
\* C14.  As claimed: refundTransaction fails with the not-found error for a
\* missing id and with the invalid-state error for a pending, cancelled or
\* refunded transaction, and succeeds only on a completed one; on success the
\* receiver's wallet decreases by the amount, the payer's wallet increases by
\* the amount, so the sum of the wallets is unchanged, and the status becomes
\* refunded.
RefundRefusals ==
  \A c \in Clients :
    LET r == Validated(c)
    IN (Validates(c) /\ r.op = "refund") =>
         IF ~Found(r.transactionId)
           THEN ret' = Returned(c, r, ErrNotFound) /\ StoreUnchanged
           ELSE IF transactions[r.transactionId].status # "completed"
             THEN ret' = Returned(c, r, ErrNotCompleted) /\ StoreUnchanged
             ELSE ret' = NoReturn /\ pc'[c] = "debit" /\ StoreUnchanged

RefundMoves(c) ==
  /\ Doc(c).status = "completed"
  /\ Doc(c).receiverId \in Users
  /\ transactions' = [transactions EXCEPT ![req[c].transactionId].status = "refunded"]
  /\ coinBalance'[Doc(c).receiverId] = coinBalance[Doc(c).receiverId] - Doc(c).amount
  /\ \A u \in Users \ {Doc(c).receiverId, Doc(c).payerId} : coinBalance'[u] = coinBalance[u]

RefundPaysBack(c) ==
  /\ Doc(c).payerId \in Users
  /\ coinBalance'[Doc(c).payerId] = coinBalance[Doc(c).payerId] + Doc(c).amount
  /\ SumOfBalances(coinBalance', Users) = SumOfBalances(coinBalance, Users)

C14_RefundEffect ==
  [][/\ RefundRefusals
     /\ \A c \in Clients :
          Succeeds(req[c], "refund") => (RefundMoves(c) /\ RefundPaysBack(c))]_vars

----
\* C15.  refundTransaction checks no balance: a refund is refused only because
\* the transaction is missing or not completed, never for the receiver's
\* balance, and a refund that succeeds when the receiver holds less than the
\* amount (the coins credited were spent in another transaction) debits the
\* whole amount all the same and leaves the receiver's wallet negative.
C15_RefundUnchecked ==
  [][\A c \in Clients :
       /\ (ret'.client = c /\ ret'.req.op = "refund" /\ Failed(ret')) =>
            /\ ret'.result \in {ErrNotFound, ErrNotCompleted}
            /\ Found(ret'.req.transactionId) =>
                 transactions[ret'.req.transactionId].status # "completed"
       /\ (/\ Succeeds(req[c], "refund")
           /\ coinBalance[Doc(c).receiverId] < Doc(c).amount) =>
            /\ coinBalance'[Doc(c).receiverId] = coinBalance[Doc(c).receiverId] - Doc(c).amount
            /\ coinBalance'[Doc(c).receiverId] < 0
    ]_vars

\* The receiver spent the coins of a completed transaction in a coin-mode
\* transaction of its own, and the refund has just succeeded: its wallet is
\* negative.
C15_Witness ==
  /\ ret.req.op = "refund" /\ ret.result = Success
  /\ transactions[ret.req.transactionId].status = "refunded"
  /\ coinBalance[transactions[ret.req.transactionId].receiverId] < 0
  /\ \E i \in DOMAIN transactions :
       /\ transactions[i].paymentMode = "coin"
       /\ transactions[i].payerId = transactions[ret.req.transactionId].receiverId

----
\* C16.  As claimed: an external-mode transaction mints coins.  Its creation
\* changes no wallet; its completion raises the sum of all wallets by exactly
\* the amount, credited to the receiver; its cancellation raises the sum of all
\* wallets by exactly the amount, credited to the payer, who was never debited.
ExternalStep(i, status) ==
  /\ IsAdvanced(i) /\ transactions[i].paymentMode = "external"
  /\ transactions[i].status = "pending" /\ transactions'[i].status = status

Minted(i, party) ==
  /\ party \in Users
  /\ coinBalance' = [coinBalance EXCEPT ![party] = @ + transactions[i].amount]
  /\ SumOfBalances(coinBalance', Users) =
       SumOfBalances(coinBalance, Users) + transactions[i].amount

C16_ExternalMints ==
  [][\A i \in DOMAIN transactions' :
       /\ (IsNew(i) /\ transactions'[i].paymentMode = "external") =>
            coinBalance' = coinBalance
       /\ ExternalStep(i, "completed") => Minted(i, transactions[i].receiverId)
       /\ ExternalStep(i, "cancelled") => Minted(i, transactions[i].payerId)
    ]_vars

----
\* C17.  As claimed: a createTransaction (with a valid amount) whose payerId is
\* of no existing user fails with the payer-not-found error, in coin mode and
\* in external mode alike, writes no record and changes no wallet; so no
\* record ever names a payer that is no user.
UnknownPayer(r) == r.op = "create" /\ r.amount > 0 /\ r.payerId \notin Users

C17_PayerNotFound ==
  /\ [][\A c \in Clients :
          (Validates(c) /\ UnknownPayer(Validated(c))) =>
            (ret' = Returned(c, Validated(c), ErrPayerNotFound) /\ StoreUnchanged)]_vars
  /\ [](\A i \in DOMAIN transactions : transactions[i].payerId \in Users)

----
\* The transaction a booking references.
PaymentOf(booking) == transactions[booking.transactionId]

\* C18.  A booking is fulfilled only after its transaction is completed: in
\* every state a DedicationRequest whose status is completed and that has a
\* transactionId references a transaction that is completed or refunded, and a
\* LiveShowAttendance whose status is completed references a transaction that
\* is completed.
C18_FulfilledAfterCompleted ==
  /\ \A i \in DOMAIN dedications :
       (dedications[i].status = "completed" /\ dedications[i].transactionId # 0) =>
         PaymentOf(dedications[i]).status \in {"completed", "refunded"}
  /\ \A a \in DOMAIN attendances :
       attendances[a].status = "completed" =>
         PaymentOf(attendances[a]).status = "completed"

\* A dedication request and a live show attendance have both been fulfilled.
C18_Witness ==
  /\ \E i \in DOMAIN dedications : dedications[i].status = "completed"
  /\ \E a \in DOMAIN attendances : attendances[a].status = "completed"

----
\* C19.  As claimed: in every state a DedicationRequest whose status is
\* rejected or cancelled and that has a transactionId references a transaction
\* that is cancelled or refunded, also when the cancelTransaction call of
\* rejectDedicationRequest or cancelDedicationRequest failed.
C19_CancelledWithPayment ==
  \A i \in DOMAIN dedications :
    (dedications[i].status \in {"rejected", "cancelled"} /\ dedications[i].transactionId # 0) =>
      PaymentOf(dedications[i]).status \in {"cancelled", "refunded"}

----
\* C20.  As claimed: the status of a DedicationRequest changes only along
\* pending -> approved, approved -> completed, pending -> rejected and
\* pending -> cancelled; so rejected, cancelled and completed are terminal and
\* an approved request is neither rejected nor cancelled.  A request is created
\* pending and none is removed.
RequestTransitions ==
  {<<"pending", "approved">>, <<"approved", "completed">>,
   <<"pending", "rejected">>, <<"pending", "cancelled">>}

C20_RequestTransitions ==
  [][/\ Len(dedications') >= Len(dedications)
     /\ \A i \in DOMAIN dedications' :
          IF i \in DOMAIN dedications
            THEN \/ dedications'[i].status = dedications[i].status
                 \/ <<dedications[i].status, dedications'[i].status>> \in RequestTransitions
            ELSE dedications'[i].status = "pending"
    ]_vars

----
\* Handler c runs a statement of the controller function op in this step.
Runs(c, op) ==
  /\ handler'[c] # handler[c] \/ ret'.client = c
  /\ \/ handler[c].op = op
     \/ handler'[c].op = op
     \/ ret'.client = c /\ ret'.req.op = op

\* A payment of the given type is completed in this step.
Pays(type) ==
  \E i \in DOMAIN transactions :
    /\ transactions[i].type = type
    /\ IsAdvanced(i) /\ transactions'[i].status = "completed"

\* C21.  Pay on delivery: no step of approveDedicationRequest changes a
\* transaction or a wallet, so the transaction of the request it approves stays
\* pending; a dedication payment is completed, and the star credited with its
\* price, only in the completeTransaction step of uploadDedicationVideo.
C21_PayOnDelivery ==
  [][/\ \A c \in Clients : Runs(c, "approveDedicationRequest") => StoreUnchanged
     /\ Pays(TypeDedication) =>
          \E c \in Clients :
            /\ Runs(c, "uploadDedicationVideo") /\ handler[c].at = "complete"
            /\ coinBalance'[Star] = coinBalance[Star] + transactions[handler[c].txn].amount
    ]_vars

\* A request has just been approved: its transaction is pending, the fan has
\* paid its price and the star has received nothing.
C21_Witness ==
  /\ ret.req.op = "approveDedicationRequest" /\ ret.result = "200"
  /\ dedications[ret.req.id].status = "approved"
  /\ PaymentOf(dedications[ret.req.id]).status = "pending"
  /\ PaymentOf(dedications[ret.req.id]).paymentMode = "coin"
  /\ coinBalance[Fan] = InitialCoins - dedications[ret.req.id].price
  /\ coinBalance[Star] = InitialCoins

----
\* C23.  As claimed: once a booking's transaction is completed the normal cancel
\* path does not cancel the booking.  No step of cancelDedicationRequest sets a
\* request whose transaction is completed to cancelled, and no step of
\* cancelLiveShow changes the status of an attendance whose transaction is
\* completed.
C23_NoCancelAfterCompleted ==
  [][\A c \in Clients :
       /\ Runs(c, "cancelDedicationRequest") =>
            \A i \in DOMAIN dedications :
              (dedications[i].transactionId # 0
                 /\ PaymentOf(dedications[i]).status = "completed")
                => dedications'[i].status = dedications[i].status
       /\ Runs(c, "cancelLiveShow") =>
            \A a \in DOMAIN attendances :
              PaymentOf(attendances[a]).status = "completed"
                => attendances'[a].status = attendances[a].status
    ]_vars

----
\* The transactionIds the bookings store, one for each booking.
Links ==
  [i \in DOMAIN dedications |-> dedications[i].transactionId]
    \o [a \in DOMAIN attendances |-> attendances[a].transactionId]
    \o [l \in DOMAIN liveShows |-> liveShows[l].transactionId]

\* C28.  As claimed: every booking stores the id of the transaction its own
\* createTransaction call created.  No two bookings store the same
\* transactionId, and once no booking creation is in progress every
\* transaction created is referenced by a booking.
C28_OwnTransaction ==
  /\ \A i, j \in DOMAIN Links : i # j => Links[i] # Links[j]
  /\ BookingsInFlight = {} =>
       \A t \in DOMAIN transactions : \E i \in DOMAIN Links : Links[i] = t

----
\* The fan-outs of the live show controller.

\* Client c's handler of op takes its step from the statement at.
Visits(c, op, at) ==
  handler[c].op = op /\ handler[c].at = at /\ handler'[c] # handler[c]

\* The attendance client c's loop is at has a pending transaction.
VisitsPending(c) ==
  /\ Found(AttendancePayment(c))
  /\ transactions[AttendancePayment(c)].status = "pending"

\* Client c's loop keeps the attendance it is at and goes to save it.
GoesToSave(c) ==
  /\ handler'[c].op = handler[c].op
  /\ handler'[c].at = "save"
  /\ handler'[c].todo = handler[c].todo

\* Client c's loop goes to the attendance after the one it is at, or after the
\* last one to the statement after the loop: LiveShow.findByIdAndUpdate in
\* cancelLiveShow, the reply in completeLiveShowAttendance.
GoesToNext(c, loop) ==
  IF Tail(handler[c].todo) # <<>>
    THEN /\ handler'[c].op = handler[c].op
         /\ handler'[c].at = loop
         /\ handler'[c].todo = Tail(handler[c].todo)
    ELSE IF loop = "cancel"
      THEN handler'[c].op = handler[c].op /\ handler'[c].at = "close"
      ELSE ret'.client = c /\ ret'.result = "200"

\* Client c's handler of op has answered 200 and no attendance of its show is
\* left active with a pending transaction.
AllVisited(op) ==
  (ret.req.op = op /\ ret.result = "200") =>
    \A a \in DOMAIN attendances :
      (attendances[a].liveShowId = ret.req.id /\ attendances[a].status = "active")
        => transactions[attendances[a].transactionId].status # "pending"

\* C24.  cancelLiveShow visits every active attendance of the show.  Where the
\* attendance's transaction is pending it is cancelled, its payer is credited
\* with its amount and the attendance is then saved as cancelled; where it is
\* not (it was cancelled out of band), nothing is written, the error is kept and
\* the loop goes on to the next attendance, or after the last one to the update
\* of the show.  When the handler has answered, no active attendance of the show
\* is left with a pending transaction.
C24_CancelFanOutTolerant ==
  /\ [](AllVisited("cancelLiveShow"))
  /\ [][\A c \in Clients :
          /\ Visits(c, "cancelLiveShow", "cancel") =>
               IF VisitsPending(c)
                 THEN /\ transactions'[AttendancePayment(c)].status = "cancelled"
                      /\ coinBalance' =
                           [coinBalance EXCEPT
                              ![transactions[AttendancePayment(c)].payerId] =
                                 @ + transactions[AttendancePayment(c)].amount]
                      /\ GoesToSave(c)
                 ELSE /\ StoreUnchanged
                      /\ attendances' = attendances
                      /\ Failed(handler'[c]) \/ Failed(ret'.req)
                      /\ GoesToNext(c, "cancel")
          /\ Visits(c, "cancelLiveShow", "save") =>
               /\ attendances'[Attendance(c)].status = "cancelled"
               /\ GoesToNext(c, "cancel")
     ]_vars

\* A show of three attendances has been cancelled: the payment of the second
\* attendance had been cancelled out of band and the attendance is left active,
\* the two others are cancelled and their payers have their coins back.
C24_Witness ==
  /\ ret.req.op = "cancelLiveShow" /\ ret.result = "200"
  /\ Len(attendances) = 3
  /\ attendances[2].status = "active"
  /\ attendances[1].status = "cancelled" /\ attendances[3].status = "cancelled"
  /\ \A t \in 2..4 : transactions[t].status = "cancelled"
  /\ transactions[2].paymentMode = "coin"
  /\ coinBalance["fan"] = InitialCoins + transactions[4].amount
  /\ liveShows[1].status = "cancelled"

----
\* The creation of a live show.

\* The hosting payment createLiveShow asks for with the given price in coin mode.
HostingInCoins(price) ==
  [type |-> TypeHosting, payerId |-> Star, receiverId |-> Admin, amount |-> price,
   paymentMode |-> "coin", status |-> "pending"]

\* C26.  As claimed: the createTransaction step of a createLiveShow in coin
\* mode that goes on debits the star by the hosting price and adds that pending
\* payment to the admin; when the handler has answered 201 the new show is
\* active and stores the id of that payment, which no other show stores.
C26_HostingPaid ==
  /\ [](ret.req.op = "createLiveShow" /\ ret.result = "201" /\ ret.req.paymentMode = "coin"
          => LET show == liveShows[Len(liveShows)]
             IN /\ show.status = "active"
                /\ show.hostingPrice = ret.req.price
                /\ show.transactionId = ret.req.txn
                /\ transactions[show.transactionId] = HostingInCoins(ret.req.price)
                /\ \A l \in DOMAIN liveShows :
                     l # Len(liveShows) => liveShows[l].transactionId # show.transactionId)
  /\ [][\A c \in Clients :
          (handler[c].at = "idle" /\ handler'[c].op = "createLiveShow"
             /\ handler'[c].paymentMode = "coin")
            => /\ transactions' = Append(transactions, HostingInCoins(handler'[c].price))
               /\ coinBalance' = [coinBalance EXCEPT ![Star] = @ - handler'[c].price]
     ]_vars

----
\* The join of a live show.

\* C27.  As claimed: a step of joinLiveShow creates a transaction only if the
\* show's attendance fee is above 0; a join of a show whose fee is 0 that has
\* passed the checks changes no wallet and no transaction, goes on from the
\* payment to the transaction lookup and from there to the creation of the
\* attendance, and creates the fan's attendance.
C27_FreeJoin ==
  [][\A c \in Clients :
       /\ (Runs(c, "joinLiveShow") /\ ~StoreUnchanged) => handler[c].price > 0
       /\ (Visits(c, "joinLiveShow", "pay") /\ handler[c].price = 0)
            => StoreUnchanged /\ handler'[c].at = "lookup"
       /\ (Visits(c, "joinLiveShow", "lookup") /\ handler[c].price = 0)
            => StoreUnchanged /\ handler'[c].at = "insert"
       /\ (Visits(c, "joinLiveShow", "insert") /\ handler[c].price = 0)
            => /\ StoreUnchanged
               /\ Len(attendances') = Len(attendances) + 1
               /\ attendances'[Len(attendances')].fanId = handler[c].user
    ]_vars

----
\* The status of an appointment.

\* The status of appointment i changes in this step.
StatusChanges(i) ==
  /\ i \in DOMAIN appointments
  /\ appointments'[i].status # appointments[i].status

\* The transitions of the specification's state machine.
AppointmentTransitions ==
  {<<"pending", "approved">>, <<"approved", "cancelled">>, <<"pending", "rejected">>}

\* C22, as claimed.  The status of an appointment changes only from pending to
\* approved, from approved to cancelled and from pending to rejected.
C22_AppointmentTransitions ==
  [][\A i \in DOMAIN appointments :
       StatusChanges(i)
         => <<appointments[i].status, appointments'[i].status>> \in AppointmentTransitions
    ]_vars

\* What each handler writes after the status it has read.
WrittenAfterRead ==
  {<<"approveAppointment", "pending", "approved">>,
   <<"rejectAppointment", "pending", "rejected">>,
   <<"rescheduleAppointment", "approved", "pending">>,
   <<"rescheduleAppointment", "rejected", "pending">>}
  \cup {<<"cancelAppointment", s, "cancelled">> : s \in {"pending", "approved", "rejected"}}

\* C22, amended.  An appointment is created pending, and its status changes
\* only in the save of a handler that has read it: approveAppointment writes
\* approved and rejectAppointment writes rejected after reading pending,
\* cancelAppointment writes cancelled after reading any status but cancelled,
\* rescheduleAppointment writes pending after reading approved or rejected; no
\* handler writes after reading cancelled.
C22_WrittenAfterRead ==
  [][/\ \A i \in DOMAIN appointments' :
          i \notin DOMAIN appointments => appointments'[i].status = "pending"
     /\ \A i \in DOMAIN appointments :
          StatusChanges(i) =>
            \E c \in Clients :
              /\ handler[c].id = i /\ handler[c].at = "save" /\ handler'[c] # handler[c]
              /\ <<handler[c].op, handler[c].status, appointments'[i].status>>
                   \in WrittenAfterRead
    ]_vars

\* An approved appointment has been rescheduled: it is pending again.
C22_Witness ==
  /\ ret.req.op = "rescheduleAppointment" /\ ret.result = "200"
  /\ ret.req.status = "approved"
  /\ appointments[ret.req.id].status = "pending"
  /\ appointments[ret.req.id].timeSlotId = ret.req.newSlot

----
\* The identifier generators.

\* Client c's generator returns in this step.
Returns(c) == handler[c].at = "check" /\ handler'[c].at = "returned"

\* Client c's generator is running.
Generating(c) == handler[c].at \in {"pick", "check"}

\* C29.  A generator returns only from its collision check and only a value of
\* its keyspace that no user has at that check, so that it does not return
\* while all the values of its keyspace are taken; and a generator that runs
\* while one value of its keyspace is free returns (that value, by the above)
\* unless the value is taken before.
C29_Generator ==
  /\ [][\A c \in Clients :
          (handler'[c].at = "returned" /\ handler[c].at # "returned")
            => /\ Returns(c)
               /\ handler'[c].baroniId = handler[c].baroniId
               /\ handler[c].baroniId \in Keyspace(handler[c].plan)
               /\ handler[c].baroniId \notin Taken
               /\ Free(handler[c].plan) # {}
     ]_vars
  /\ \A c \in Clients :
       (Generating(c) /\ Cardinality(Free(handler[c].plan)) = 1)
         ~> \/ handler[c].at = "returned" /\ handler[c].baroniId \in Free(handler[c].plan)
            \/ Free(handler[c].plan) = {}

\* The standard generator has returned the one id no user had.
C29_Witness ==
  \E c \in Clients :
    /\ handler[c].at = "returned" /\ handler[c].plan = "standard"
    /\ Free("standard") = {handler[c].baroniId}
    /\ Cardinality(seeded) = Cardinality(StandardIds) - 1

----
\* The baroniIds of the users.

\* C30.  As claimed: no two users have the same baroniId.
C30_UniqueBaroniId ==
  \A u, w \in Users :
    (u # w /\ baroniId[u] # 0) => baroniId[u] # baroniId[w]

----
\* C31.  completeTransaction and cancelTransaction on one pending transaction,
\* interleaved: at most one of the two succeeds; a completed transaction was
\* completed once and never cancelled, a cancelled one was cancelled once and
\* never completed; the call that succeeds credits the receiver alone
\* (completion) or the payer alone (cancellation), and the call that read the
\* transaction as pending before the other committed never writes the store
\* and, when it returns, returns the invalid-state error.
Settles(c) == req[c].op \in {"complete", "cancel"}

Overtaken(c) ==
  /\ Settles(c) /\ pc[c] # "idle"
  /\ Found(req[c].transactionId) /\ Doc(c).status # "pending"

C31_CompleteOrCancel ==
  /\ [](\A t \in 1..MaxTransactions :
          /\ succeeded[t].complete + succeeded[t].cancel <= 1
          /\ (Found(t) /\ transactions[t].status = "completed") =>
               succeeded[t].complete = 1 /\ succeeded[t].cancel = 0
          /\ (Found(t) /\ transactions[t].status = "cancelled") =>
               succeeded[t].cancel = 1 /\ succeeded[t].complete = 0)
  /\ [][\A c \in Clients :
          /\ (Overtaken(c) /\ pc'[c] # pc[c]) =>
               /\ StoreUnchanged
               /\ ret'.client = c => ret'.result = ErrNotPending
          /\ Succeeds(req[c], "complete") =>
               coinBalance' = Credited(coinBalance, Doc(c).receiverId, Doc(c).amount)
          /\ Succeeds(req[c], "cancel") =>
               coinBalance' = Credited(coinBalance, Doc(c).payerId, Doc(c).amount)
       ]_vars

\* One of completeTransaction and cancelTransaction has just committed while
\* the other one, on the same id, had already read the transaction as pending.
C31_Witness ==
  /\ ret.result = Success /\ ret.req.op \in {"complete", "cancel"}
  /\ \E d \in Clients \ {ret.client} :
       /\ Settles(d) /\ req[d].op # ret.req.op
       /\ req[d].transactionId = ret.req.transactionId
       /\ pc[d] \in {"credit", "save"}

----
\* C33.  A cancelLiveShow that found its show ends in one way only: the show's
\* status is set to cancelled and the answer is the success answer, also when
\* cancelTransaction failed for attendances of its loop.  The step in which
\* cancelTransaction fails for an attendance leaves the attendance as it was
\* (active, where no other handler saved it meanwhile) and credits no wallet.
AnswersCancel(c) == ret'.client = c /\ ret'.req.op = "cancelLiveShow"

C33_CancelAlwaysCloses ==
  /\ [](\A c \in Clients :
          (ret.client = c /\ ret.req.op = "cancelLiveShow" /\ ret.result = "200")
            => liveShows[ret.req.id].status = "cancelled")
  /\ [][\A c \in Clients :
          /\ (AnswersCancel(c) /\ FoundShow(ret'.req.id)) =>
               /\ handler[c].at = "close"
               /\ ret'.result = "200"
               /\ liveShows'[ret'.req.id].status = "cancelled"
               /\ StoreUnchanged /\ attendances' = attendances
          /\ (Visits(c, "cancelLiveShow", "cancel") /\ ~VisitsPending(c)) =>
               /\ attendances' = attendances
               /\ coinBalance' = coinBalance
               /\ handler'[c].op = "cancelLiveShow"
               /\ Failed(handler'[c])
          /\ (Visits(c, "cancelLiveShow", "close") /\ Failed(handler[c])) =>
               AnswersCancel(c) /\ ret'.result = "200"
     ]_vars

\* cancelLiveShow has answered with success for a show of two attendances:
\* cancelTransaction failed for the first one, whose payment had been cancelled
\* out of band, and the attendance is still active; the show is cancelled.
C33_Witness ==
  /\ ret.req.op = "cancelLiveShow" /\ ret.result = "200"
  /\ liveShows[1].status = "cancelled"
  /\ Len(attendances) = 2
  /\ attendances[1].status = "active" /\ transactions[2].status = "cancelled"
  /\ attendances[2].status = "cancelled"

----
\* C39.  cancelLiveShow and completeLiveShowAttendance leave the hosting
\* payment of the show alone: every hosting transaction is pending in every
\* state, every show's transactionId names one, and a step of either handler
\* leaves the hosting transactions and the admin's wallet as they are and
\* changes the star's wallet by the amount of the attendance payment it
\* completes, if it completes one, and by nothing else.
HostingPayments(txns) ==
  {t \in DOMAIN txns : txns[t].type = TypeHosting}

\* The attendance payments that become completed in this step.
AttendancesPaid ==
  {t \in DOMAIN transactions :
     /\ transactions[t].type = TypeAttendance
     /\ transactions[t].status = "pending"
     /\ transactions'[t].status = "completed"}

C39_HostingUntouched ==
  /\ [](/\ \A t \in HostingPayments(transactions) : transactions[t].status = "pending"
        /\ \A s \in DOMAIN liveShows :
             liveShows[s].transactionId \in HostingPayments(transactions))
  /\ [][\A c \in Clients :
          (Runs(c, "cancelLiveShow") \/ Runs(c, "completeLiveShowAttendance")) =>
            /\ HostingPayments(transactions') = HostingPayments(transactions)
            /\ \A t \in HostingPayments(transactions) : transactions'[t] = transactions[t]
            /\ coinBalance'[Admin] = coinBalance[Admin]
            /\ \A s \in DOMAIN liveShows :
                 /\ liveShows'[s].transactionId = liveShows[s].transactionId
                 /\ liveShows'[s].hostingPrice = liveShows[s].hostingPrice
            /\ IF AttendancesPaid = {}
                 THEN coinBalance'[Star] = coinBalance[Star]
                 ELSE \E t \in AttendancesPaid :
                        /\ AttendancesPaid = {t}
                        /\ coinBalance'[Star] = coinBalance[Star] + transactions[t].amount
     ]_vars

\* A show whose attendances were completed has then been cancelled: the
\* hosting payment is still pending, the admin's wallet is as it was and the
\* star holds the attendance fees only.
C39_Witness ==
  /\ ret.req.op = "cancelLiveShow" /\ ret.result = "200"
  /\ liveShows[1].status = "cancelled"
  /\ transactions[liveShows[1].transactionId].status = "pending"
  /\ \E a \in DOMAIN attendances : attendances[a].status = "completed"
  /\ \E a \in DOMAIN attendances : attendances[a].status = "cancelled"
  /\ coinBalance[Admin] = InitialCoins

----
\* C34.  As claimed: a createLiveShow or a createDedicationRequest that answers
\* with a failure leaves nothing of a payment behind.  The handlers hold no
\* call that cancels a transaction, so the call that answers with a failure is
\* one whose createTransaction did not commit, and when no creation is running
\* every pending hosting payment is the payment of a show that was created.
Creates(op) == op \in {"createLiveShow", "createDedicationRequest"}

PendingHosting ==
  {t \in HostingPayments(transactions) : transactions[t].status = "pending"}

C34_FailureLeavesNothing ==
  /\ []((\A c \in Clients : handler[c].at = "idle")
          => Cardinality(PendingHosting) <= Len(liveShows))
  /\ [][\A c \in Clients :
          (ret'.client = c /\ Creates(ret'.req.op) /\ ret'.result # "201")
            => ret'.req.result # Success
     ]_vars

----
\* C32.  As claimed: the completion of the payment is atomic with the
\* request's step to completed.  Whenever no uploadDedicationVideo is running
\* on a request that is approved, the request's transaction is not completed,
\* so that the upload can be tried again and complete it.
Uploading(d) ==
  \E c \in Clients : handler[c].op = "uploadDedicationVideo" /\ handler[c].id = d

C32_CompletionAtomic ==
  \A d \in DOMAIN dedications :
    (dedications[d].status = "approved" /\ ~Uploading(d)
       /\ Found(dedications[d].transactionId))
      => transactions[dedications[d].transactionId].status # "completed"

----
\* C36.  As claimed: a live show of finite maxCapacity never has more
\* currentAttendees than its maxCapacity, whatever the interleaving of the
\* joins.
C36_WithinCapacity ==
  \A s \in DOMAIN liveShows :
    liveShows[s].maxCapacity # Unlimited =>
      liveShows[s].currentAttendees <= liveShows[s].maxCapacity

----
\* C37.  As claimed: a fan is charged once per live show at most.  For each
\* fan and show there is at most one attendance, the fan has paid at most one
\* attendance payment for each show there is, and the show's currentAttendees
\* is the number of the fans in its attendees.
AttendancesOf(fan, s) ==
  {a \in DOMAIN attendances :
     attendances[a].fanId = fan /\ attendances[a].liveShowId = s}

AttendancePaymentsOf(fan) ==
  {t \in DOMAIN transactions :
     transactions[t].type = TypeAttendance /\ transactions[t].payerId = fan}

C37_ChargedOnce ==
  /\ \A fan \in Fans :
       /\ \A s \in DOMAIN liveShows : Cardinality(AttendancesOf(fan, s)) <= 1
       /\ Cardinality(AttendancePaymentsOf(fan)) <= Len(liveShows)
  /\ \A s \in DOMAIN liveShows :
       liveShows[s].currentAttendees = Cardinality(liveShows[s].attendees)

----
\* C35.  As claimed: once cancelLiveShow has answered for a show, which it
\* does in the step that sets the show to cancelled, no attendance of the show
\* is active with a pending transaction, whatever joins ran beside it: each
\* fan who paid to join the cancelled show has the fee back.
C35_CancelledShowRefunded ==
  \A s \in DOMAIN liveShows :
    liveShows[s].status = "cancelled" =>
      \A a \in DOMAIN attendances :
        (attendances[a].liveShowId = s /\ attendances[a].status = "active"
           /\ Found(attendances[a].transactionId))
          => transactions[attendances[a].transactionId].status # "pending"

----
\* C38.  As claimed: after any sequence of the appointment operations, that
\* is whenever no handler is running, for each time slot at most one
\* appointment is approved, and the slot is unavailable exactly when an
\* approved appointment holds it.
ApprovedOn(slot) ==
  {i \in DOMAIN appointments :
     appointments[i].timeSlotId = slot /\ appointments[i].status = "approved"}

C38_SlotHeldByOne ==
  (\A c \in Clients : handler[c].at = "idle") =>
    \A slot \in DOMAIN timeSlots :
      /\ Cardinality(ApprovedOn(slot)) <= 1
      /\ timeSlots[slot] = "unavailable" <=> ApprovedOn(slot) # {}

====
